---------------------------- MODULE Spec2Model ----------------------------
(***************************************************************************)
(* A model of the Uiua primitive layer: the name resolver                  *)
(* (Primitive::from_format_name, Primitive::from_format_name_multi) and    *)
(* the primitive dispatcher (Primitive::run) of both the legacy table      *)
(* (src/src/primitive.rs) and the current one (src/src/primitive/mod.rs).  *)
(*                                                                         *)
(* Strings are sequences of one-character strings; Width gives the number  *)
(* of bytes of a character in UTF-8, because str::len() counts bytes.      *)
(***************************************************************************)
EXTENDS Integers, Sequences, FiniteSets, TLC

VARIABLES
    \* ---- name resolver (from_format_name / from_format_name_multi) ----
    name,       \* the argument `name: &str`
    phase,      \* position in the resolver: start, single, forward, backward, done
    start,      \* `start`, the forward cursor (an index into `indices`)
    end,        \* `end`, the backward cursor (an index into `indices`)
    prims,      \* `prims`, the output vector built so far
    fres,       \* the value returned by from_format_name(name)
    result,     \* the value returned by from_format_name_multi(name)
    consumed,   \* the candidate the last loop iteration consumed
    \* ---- primitive dispatcher (Primitive::run) ----
    dispatcher, \* which dispatcher runs: "legacy" (primitive.rs) or "current" (mod.rs)
    stack,      \* the value stack, top = end
    antistack,  \* the anti-stack, top = end
    memo,       \* the memo table: a set of [id, args, outputs]
    last,       \* what the last dispatched instruction did
    \* ---- Tag (the process-wide counter and the threads that run Tag) ----
    NEXT_TAG,   \* `static NEXT_TAG: AtomicUsize`
    tag,        \* per thread: the local `tag` between fetch_add and push, -1 outside
    tstack,     \* per thread: the naturals its Tag invocations pushed, oldest first
    \* ---- Rand and Gen ----
    RNG,        \* `static RNG: RefCell<SmallRng>` of random(), thread-local
    gens,       \* what each Gen invocation so far was given and what it left
    \* ---- PrimDoc::from_lines ----
    s_lines,    \* `s.lines()`: the lines of the argument `s: &str`
    line_no,    \* how many of them the `for line in s.lines()` loop has taken
    short,      \* `short`
    lines,      \* `lines`
    returned    \* whether from_lines has returned Self { short, lines }

nameVars == <<name, phase, start, end, prims, fres, result, consumed>>
runVars == <<dispatcher, stack, antistack, memo, last>>
tagVars == <<NEXT_TAG, tag, tstack>>
genVars == <<RNG, gens>>
docVars == <<s_lines, line_no, short, lines, returned>>
vars == <<name, phase, start, end, prims, fres, result, consumed,
          dispatcher, stack, antistack, memo, last, NEXT_TAG, tag, tstack,
          RNG, gens, s_lines, line_no, short, lines, returned>>

(***************************************************************************)
(* Bounds of the model                                                     *)
(***************************************************************************)
\* longest proper name prefix offered as an input chunk
MaxPrefix == 4
\* deepest value stack an instruction may leave
MaxStack == 3
\* deepest anti-stack an instruction may leave
MaxAnti == 1
\* longest word over the planet letters offered as an input
MaxPlanet == 3
\* number of threads that run Tag
MaxThreads == 3
\* number of Tag invocations followed
MaxTag == 4
\* number of Gen invocations followed
MaxGen == 2
\* number of Rand invocations followed
MaxRand == 1
\* number of lines of a documentation comment
MaxLines == 4

Min(S) == CHOOSE x \in S : \A y \in S : x <= y
Max(S) == CHOOSE x \in S : \A y \in S : x >= y

RECURSIVE Reverse(_)
Reverse(s) == IF s = <<>> THEN <<>> ELSE Reverse(Tail(s)) \o <<Head(s)>>

(***************************************************************************)
(* Characters and strings                                                  *)
(***************************************************************************)
\* char::is_uppercase
is_uppercase(c) == c \in {"R", "F"}

\* char::is_ascii
is_ascii(c) == c # "π"

\* bytes of a character in UTF-8
Width(c) == IF is_ascii(c) THEN 1 ELSE 2

\* str::len(): the length in bytes
RECURSIVE len(_)
len(s) == IF s = <<>> THEN 0 ELSE Width(Head(s)) + len(Tail(s))

\* name.char_indices().map(|(i, _)| i): the byte offset of each character
char_indices(s) == [k \in 1..Len(s) |-> len(SubSeq(s, 1, k - 1))]

\* &name[from..to] for byte offsets that are character boundaries
Slice(s, from, to) ==
    LET off == char_indices(s)
        ks == {k \in 1..Len(s) : off[k] >= from /\ off[k] < to}
    IN  IF ks = {} THEN <<>> ELSE SubSeq(s, Min(ks), Max(ks))

\* str::starts_with
starts_with(s, p) == Len(p) <= Len(s) /\ SubSeq(s, 1, Len(p)) = p

(***************************************************************************)
(* The primitive catalogue (names, glyph kind), in enumeration order       *)
(***************************************************************************)
None == "None"

all ==
  << [prim |-> "Dup", text |-> <<"d","u","p","l","i","c","a","t","e">>, glyph |-> "ascii"],
     [prim |-> "Pop", text |-> <<"p","o","p">>, glyph |-> "ascii"],
     [prim |-> "Identity", text |-> <<"i","d","e","n","t","i","t","y">>, glyph |-> "nonascii"],
     [prim |-> "Pi", text |-> <<"p","i">>, glyph |-> "nonascii"],
     [prim |-> "Range", text |-> <<"r","a","n","g","e">>, glyph |-> "nonascii"],
     [prim |-> "Reverse", text |-> <<"r","e","v","e","r","s","e">>, glyph |-> "nonascii"],
     [prim |-> "Transpose", text |-> <<"t","r","a","n","s","p","o","s","e">>, glyph |-> "nonascii"],
     [prim |-> "Parse", text |-> <<"p","a","r","s","e">>, glyph |-> "nonascii"],
     [prim |-> "Pick", text |-> <<"p","i","c","k">>, glyph |-> "nonascii"],
     [prim |-> "Reshape", text |-> <<"r","e","s","h","a","p","e">>, glyph |-> "nonascii"],
     [prim |-> "Rerank", text |-> <<"r","e","r","a","n","k">>, glyph |-> "nonascii"],
     [prim |-> "Keep", text |-> <<"k","e","e","p">>, glyph |-> "nonascii"],
     [prim |-> "Reduce", text |-> <<"r","e","d","u","c","e">>, glyph |-> "ascii"],
     [prim |-> "Table", text |-> <<"t","a","b","l","e">>, glyph |-> "nonascii"],
     [prim |-> "Cross", text |-> <<"c","r","o","s","s">>, glyph |-> "nonascii"],
     [prim |-> "Do", text |-> <<"d","o">>, glyph |-> "nonascii"],
     [prim |-> "Partition", text |-> <<"p","a","r","t","i","t","i","o","n">>, glyph |-> "nonascii"],
     [prim |-> "Unpack", text |-> <<"u","n","p","a","c","k">>, glyph |-> "nonascii"],
     [prim |-> "Gap", text |-> <<"g","a","p">>, glyph |-> "nonascii"],
     [prim |-> "Dip", text |-> <<"d","i","p">>, glyph |-> "nonascii"],
     [prim |-> "Fork", text |-> <<"f","o","r","k">>, glyph |-> "nonascii"],
     [prim |-> "Cascade", text |-> <<"c","a","s","c","a","d","e">>, glyph |-> "nonascii"],
     [prim |-> "Un", text |-> <<"u","n">>, glyph |-> "nonascii"],
     [prim |-> "Under", text |-> <<"u","n","d","e","r">>, glyph |-> "nonascii"],
     [prim |-> "Recur", text |-> <<"r","e","c","u","r">>, glyph |-> "nonascii"],
     [prim |-> "Try", text |-> <<"t","r","y">>, glyph |-> "nonascii"],
     [prim |-> "Rand", text |-> <<"r","a","n","d","o","m">>, glyph |-> "nonascii"],
     [prim |-> "Recv", text |-> <<"r","e","c","v">>, glyph |-> "none"],
     [prim |-> "TryRecv", text |-> <<"t","r","y","r","e","c","v">>, glyph |-> "none"],
     [prim |-> "Trace", text |-> <<"t","r","a","c","e">>, glyph |-> "nonascii"],
     [prim |-> "Rectify", text |-> <<"r","e","c","t","i","f","y">>, glyph |-> "nonascii"] >>

\* Primitive::deprecation_suggestion(..).is_some()
is_deprecated(e) == e.prim \in {"Unpack", "Cross", "Cascade", "Rectify"}

\* non_deprecated without its filter: every primitive
non_deprecated_unfiltered == all

\* Primitive::non_deprecated()
non_deprecated == SelectSeq(all, LAMBDA e : ~is_deprecated(e))

\* p.glyph().is_some_and(|u| !u.is_ascii())
glyph_not_ascii(e) == e.glyph = "nonascii"

(***************************************************************************)
(* Primitive::from_format_name                                             *)
(***************************************************************************)
\* the `match name { "id" => .. }` arm: the fixed aliases
Alias(s) ==
    CASE s = <<"i","d">> -> "Identity"
      [] s = <<"g","a">> -> "Gap"
      [] s = <<"p","i">> -> "Pi"
      [] s = <<"r","a","n">> -> "Range"
      [] s = <<"t","r","a">> -> "Transpose"
      [] s = <<"p","a","r">> -> "Partition"
      [] OTHER -> None

\* PrefixMatch with the length test off by one (`name.len() < 4`)
PrefixMatchMin4(s) ==
    IF len(s) < 4 THEN None
    ELSE LET matching == SelectSeq(non_deprecated,
                            LAMBDA e : glyph_not_ascii(e) /\ starts_with(e.text, s))
         IN  IF matching = <<>> THEN None
             ELSE IF Len(matching) = 1 THEN matching[1].prim ELSE None

\* PrefixMatch without the glyph filter (every non-deprecated name is a candidate)
PrefixMatchAnyGlyph(s) ==
    IF len(s) < 3 THEN None
    ELSE LET matching == SelectSeq(non_deprecated, LAMBDA e : starts_with(e.text, s))
         IN  IF matching = <<>> THEN None
             ELSE IF Len(matching) = 1 THEN matching[1].prim ELSE None

\* the prefix rule: the last six lines of from_format_name
PrefixMatch(s) ==
    IF len(s) < 3 THEN None
    ELSE LET matching == SelectSeq(non_deprecated,
                            LAMBDA e : glyph_not_ascii(e) /\ starts_with(e.text, s))
         IN  IF matching = <<>> THEN None
             ELSE LET res == matching[1]
                      exact_match == res.text = s
                  IN  IF exact_match \/ Len(matching) = 1 THEN res.prim ELSE None

\* from_format_name with the three-character test ahead of the aliases
from_format_name_len_first(s) ==
    IF \E k \in 1..Len(s) : is_uppercase(s[k]) THEN None
    ELSE IF len(s) < 3 THEN None
    ELSE IF Alias(s) # None THEN Alias(s)
    ELSE LET exact == SelectSeq(non_deprecated, LAMBDA e : e.text = s)
         IN  IF exact # <<>> THEN exact[1].prim
             ELSE PrefixMatch(s)

from_format_name(s) ==
    IF \E k \in 1..Len(s) : is_uppercase(s[k]) THEN None
    ELSE IF len(s) < 2 THEN None
    ELSE IF Alias(s) # None THEN Alias(s)
    ELSE LET exact == SelectSeq(non_deprecated, LAMBDA e : e.text = s)
         IN  IF exact # <<>> THEN exact[1].prim
             ELSE PrefixMatch(s)


(***************************************************************************)
(* Primitive::from_format_name_multi                                       *)
(***************************************************************************)
\* `indices`: the byte offset of every character, then name.len()
Indices(s) == char_indices(s) \o <<len(s)>>

\* indices.get(k).copied().unwrap_or(dflt), for a 0-based k
IndexOr(ix, k, dflt) == IF k >= 0 /\ k < Len(ix) THEN ix[k + 1] ELSE dflt

\* the forward candidate of `len` entries of `indices` at cursor `st`
ForwardSub(s, st, ln) ==
    LET ix == Indices(s)
    IN  Slice(s, ix[st + 1], IndexOr(ix, st + ln, len(s)))

\* the backward candidate of `len` entries of `indices` ending at cursor `en`
BackwardSub(s, en, ln) ==
    LET ix == Indices(s)
    IN  Slice(s, IndexOr(ix, en - ln, 0), ix[en + 1])

\* IsPlanet with `any` in place of `all`
IsPlanetAny(sub) ==
    LET a == IF sub # <<>> /\ Head(sub) = "f" THEN Tail(sub) ELSE sub
        b == IF a # <<>> /\ a[Len(a)] \in {"i", "p"} THEN SubSeq(a, 1, Len(a) - 1) ELSE sub
    IN  \E k \in 1..Len(b) : b[k] \in {"g", "d"}

\* sub_name.strip_prefix('f').unwrap_or(sub_name)
\*         .strip_suffix(['i', 'p']).unwrap_or(sub_name).chars().all(|c| "gd".contains(c))
IsPlanet(sub) ==
    LET a == IF sub # <<>> /\ Head(sub) = "f" THEN Tail(sub) ELSE sub
        b == IF a # <<>> /\ a[Len(a)] \in {"i", "p"} THEN SubSeq(a, 1, Len(a) - 1) ELSE sub
    IN  \A k \in 1..Len(b) : b[k] \in {"g", "d"}

\* the `match c { 'f' => Primitive::Fork, .. }` of the planet decomposition
PlanetPrim(c) ==
    CASE c = "f" -> "Fork"
      [] c = "g" -> "Gap"
      [] c = "d" -> "Dip"
      [] c = "i" -> "Identity"
      [] c = "p" -> "Pop"
      [] OTHER -> "unreachable"

\* PlanetElems with every element holding the whole candidate as its slice
PlanetElemsWhole(sub, at) ==
    [k \in 1..Len(sub) |->
        [prim |-> PlanetPrim(sub[k]), text |-> sub, at |-> at + char_indices(sub)[k]]]

\* the elements pushed for a planet candidate that starts at byte offset `at`
PlanetElems(sub, at) ==
    [k \in 1..Len(sub) |->
        [prim |-> PlanetPrim(sub[k]), text |-> <<sub[k]>>, at |-> at + char_indices(sub)[k]]]

\* whether the forward loop body consumes this candidate
ForwardAccepts(sub) == from_format_name(sub) # None \/ IsPlanet(sub)

\* ForwardLen iterating upwards: the shortest consumable candidate first
ForwardLenShortest(s, st, ln) ==
    LET ok == {l \in 2..ln : len(ForwardSub(s, st, l)) >= 2
                              /\ ForwardAccepts(ForwardSub(s, st, l))}
    IN  IF ok = {} THEN 0 ELSE Min(ok)

\* ForwardLen with the range of the loop one longer: 2..=indices.len() - start + 1
ForwardLenOnePast(s, st, ln) ==
    LET ok == {l \in 2..(ln + 1) : len(ForwardSub(s, st, l)) >= 2
                                    /\ ForwardAccepts(ForwardSub(s, st, l))}
    IN  IF ok = {} THEN 0 ELSE Max(ok)

\* `for len in (2..=indices.len() - start).rev()`: the first len, from ln down,
\* whose candidate is consumed; 0 when the loop falls through
RECURSIVE ForwardLen(_, _, _)
ForwardLen(s, st, ln) ==
    IF ln < 2 THEN 0
    ELSE LET sub == ForwardSub(s, st, ln)
         IN  IF len(sub) < 2 THEN ForwardLen(s, st, ln - 1)
             ELSE IF ForwardAccepts(sub) THEN ln
             ELSE ForwardLen(s, st, ln - 1)

\* `for len in (2..=end).rev()`: the first len, from ln down, whose candidate
\* resolves; 0 when the loop falls through
RECURSIVE BackwardLen(_, _, _)
BackwardLen(s, en, ln) ==
    IF ln < 2 THEN 0
    ELSE IF from_format_name(BackwardSub(s, en, ln)) # None THEN ln
    ELSE BackwardLen(s, en, ln - 1)

NoResult == [some |-> FALSE, list |-> <<>>]
Some(l) == [some |-> TRUE, list |-> l]
NoConsumed == [scan |-> "none", at |-> 0, len |-> 0, sub |-> <<>>, planet |-> FALSE]

\* a call of Primitive::from_format_name(name)
FormatName ==
    /\ phase = "start"
    /\ fres' = from_format_name(name)
    /\ phase' = "single"
    /\ UNCHANGED <<name, start, end, prims, result, consumed>>
    /\ UNCHANGED runVars
    /\ UNCHANGED <<tagVars, genVars, docVars>>

\* entry of from_format_name_multi: the `indices.len() < 2` test
MultiEnter ==
    /\ phase = "start"
    /\ IF Len(char_indices(name)) < 2
       THEN /\ phase' = "done"
            /\ result' = NoResult
       ELSE /\ phase' = "forward"
            /\ result' = result
    /\ start' = 0
    /\ prims' = <<>>
    /\ UNCHANGED <<name, end, fres, consumed>>
    /\ UNCHANGED runVars
    /\ UNCHANGED <<tagVars, genVars, docVars>>

\* one iteration of the forward `'outer: loop`
ForwardIter ==
    /\ phase = "forward"
    /\ LET ix == Indices(name)
       IN  IF start = Len(ix)
           THEN /\ phase' = "done"
                /\ result' = Some(prims)
                /\ UNCHANGED <<start, end, prims, consumed>>
           ELSE IF start > Len(ix)
           THEN \* indices[start] is out of bounds
                /\ phase' = "panic"
                /\ UNCHANGED <<start, end, prims, result, consumed>>
           ELSE \E length \in {ForwardLen(name, start, Len(ix) - start)} :
                \E sub_name \in {ForwardSub(name, start, length)} :
                \E p \in {from_format_name(sub_name)} :
                    IF length = 0
                    THEN \* break; prims.clear(); end = indices.len() - 1
                         /\ phase' = "backward"
                         /\ prims' = <<>>
                         /\ end' = Len(ix) - 1
                         /\ UNCHANGED <<start, result, consumed>>
                    ELSE IF p = None /\ \E k \in 1..Len(sub_name) : PlanetPrim(sub_name[k]) = "unreachable"
                    THEN \* unreachable!()
                         /\ phase' = "panic"
                         /\ UNCHANGED <<start, end, prims, result, consumed>>
                    ELSE /\ prims' = IF p # None
                                     THEN Append(prims, [prim |-> p, text |-> sub_name,
                                                         at |-> ix[start + 1]])
                                     ELSE prims \o PlanetElems(sub_name, ix[start + 1])
                         /\ start' = start + length
                         /\ consumed' = [scan |-> "forward", at |-> start, len |-> length,
                                         sub |-> sub_name, planet |-> p = None]
                         /\ UNCHANGED <<phase, end, result>>
    /\ UNCHANGED <<name, fres>>
    /\ UNCHANGED runVars
    /\ UNCHANGED <<tagVars, genVars, docVars>>

\* one iteration of the backward `'outer: loop`
BackwardIter ==
    /\ phase = "backward"
    /\ LET ix == Indices(name)
       IN  IF end = 0
           THEN /\ phase' = "done"
                /\ result' = Some(Reverse(prims))
                /\ prims' = Reverse(prims)
                /\ UNCHANGED <<end, consumed>>
           ELSE IF end >= Len(ix)
           THEN \* indices[end] is out of bounds
                /\ phase' = "panic"
                /\ UNCHANGED <<end, prims, result, consumed>>
           ELSE \E length \in {BackwardLen(name, end, end)} :
                \E sub_name \in {BackwardSub(name, end, length)} :
                    IF length = 0
                    THEN /\ phase' = "done"
                         /\ result' = NoResult
                         /\ UNCHANGED <<end, prims, consumed>>
                    ELSE /\ prims' = Append(prims, [prim |-> from_format_name(sub_name),
                                                    text |-> sub_name,
                                                    at |-> IndexOr(ix, end - length, 0)])
                         /\ end' = end - length
                         /\ consumed' = [scan |-> "backward", at |-> end - length, len |-> length,
                                         sub |-> sub_name, planet |-> FALSE]
                         /\ UNCHANGED <<phase, result>>
    /\ UNCHANGED <<name, start, fres>>
    /\ UNCHANGED runVars
    /\ UNCHANGED <<tagVars, genVars, docVars>>

(***************************************************************************)
(* The inputs offered to the resolver                                      *)
(***************************************************************************)
Texts == {all[k].text : k \in 1..Len(all)}

\* full names and their prefixes of 2..MaxPrefix characters
NameChunks ==
    Texts \cup UNION {{SubSeq(t, 1, k) : k \in 2..Min({MaxPrefix, Len(t)})} : t \in Texts}

PlanetLetters == {"f", "g", "d", "i", "p"}

PlanetWords == UNION {[1..n -> PlanetLetters] : n \in 1..MaxPlanet}

ShortPlanet == {w \in PlanetWords : Len(w) <= 2}

\* strings that are no name: an unknown word, an uppercase one, a multi-byte one
OtherWords ==
    { <<"f","o","o">>, <<"o">>, <<"R","e","v">>, <<"π">>, <<"r","π">>,
      <<"g","d","π">>, <<>> }

Inputs ==
    NameChunks \cup PlanetWords \cup OtherWords
      \cup {a \o b : a \in NameChunks, b \in NameChunks}
      \cup {a \o w : a \in NameChunks, w \in ShortPlanet}
      \cup {w \o a : w \in ShortPlanet, a \in NameChunks}



(***************************************************************************)
(* The runtime the dispatcher works on: values, errors, the two stacks     *)
(***************************************************************************)
\* a number, a string (numbered: 0 is "err", 1 the empty-stack message of
\* pop, 3 the message of the rethrow handler, 4 the error of inverting a value
\* that is no function, 5 the error of Dump's signature test, 6 "Gen expects a
\* number", 7 the error of inverting a function that has no inverse), and the
\* string that spells a number
Num(n) == [t |-> "num", v |-> n]
Str(k) == [t |-> "str", v |-> k]
NumStr(n) == [t |-> "numstr", v |-> n]
NoVal == [t |-> "none", v |-> 0]

\* a number that is no natural (one half), and the string that spells it
Frac == [t |-> "frac", v |-> 0]
FracStr == [t |-> "fracstr", v |-> 0]

\* the words of the "<word> was not inlined" errors of the current dispatcher
NotInlinedWords ==
    <<"Dip", "Gap", "Invert", "Under", "Bind", "Both", "Fork", "Cascade", "Bracket", "Comptime">>

\* env.error(format!("{word} was not inlined. This is a bug in the interpreter"))
Internal(word) ==
    [t |-> "internal", v |-> CHOOSE k \in 1..Len(NotInlinedWords) : NotInlinedWords[k] = word]

\* std::f64::consts::PI / pi(), to the nearest number of the model
PI == Num(3)

\* the state a run works on: the stacks and the UiuaResult so far
\* (ok, or the error value e), with the trace of the functions entered
Env(stk, anti) == [stack |-> stk, anti |-> anti, ok |-> TRUE, e |-> NoVal, calls |-> <<>>]

\* env.error(message) / `return Err(..)`
Fail(st, e) == [st EXCEPT !.ok = FALSE, !.e = e]

\* env.push / env.push_ref
push(st, v) == IF st.ok THEN [st EXCEPT !.stack = Append(@, v)] ELSE st

\* env.pop(n)?: the state after the pop; an empty stack is an error
pop(st) ==
    IF ~st.ok THEN st
    ELSE IF st.stack = <<>> THEN Fail(st, Str(1))
    ELSE [st EXCEPT !.stack = SubSeq(@, 1, Len(@) - 1)]

\* the value env.pop takes (the top), where there is one
top(st) == IF st.stack = <<>> THEN NoVal ELSE st.stack[Len(st.stack)]

\* env.antipush_ref / env.antipop(n)?
antipush(st, v) == IF st.ok THEN [st EXCEPT !.anti = Append(@, v)] ELSE st
antipop(st) ==
    IF ~st.ok THEN st
    ELSE IF st.anti = <<>> THEN Fail(st, Str(1))
    ELSE [st EXCEPT !.anti = SubSeq(@, 1, Len(@) - 1)]
antitop(st) == IF st.anti = <<>> THEN NoVal ELSE st.anti[Len(st.anti)]

\* env.truncate_stack(size) / env.truncate_antistack(size): Vec::truncate
truncate(q, size) == IF size < Len(q) THEN SubSeq(q, 1, size) ELSE q

\* env.clone_stack_top(n): the top n values (all of them if fewer), bottom first
clone_stack_top(q, n) == SubSeq(q, Max({1, Len(q) - n + 1}), Len(q))

\* Value::as_nat: the natural number a value holds, -1 if it holds none
as_nat(v) == IF v.t = "num" THEN v.v ELSE -1

\* UiuaError::message() of the legacy runtime: the message as a string
message(e) == IF e.t = "num" THEN NumStr(e.v) ELSE IF e.t = "frac" THEN FracStr ELSE e

\* UiuaError::value() of the current runtime: the thrown value itself
value(e) == e

(***************************************************************************)
(* The signatures the catalogues declare                                   *)
(***************************************************************************)
\* the entries of the legacy primitive! table that the model runs; -1 stands
\* for a count the entry does not write
legacy_table ==
    { [prim |-> "Dup",   args |-> 1,  outputs |-> 2,  antiargs |-> -1, antioutputs |-> -1],
      [prim |-> "Over",  args |-> 2,  outputs |-> 3,  antiargs |-> -1, antioutputs |-> -1],
      [prim |-> "Flip",  args |-> 2,  outputs |-> 2,  antiargs |-> -1, antioutputs |-> -1],
      [prim |-> "Pop",   args |-> 1,  outputs |-> 0,  antiargs |-> -1, antioutputs |-> -1],
      [prim |-> "Save",  args |-> 1,  outputs |-> 0,  antiargs |-> -1, antioutputs |-> 1],
      [prim |-> "Load",  args |-> 0,  outputs |-> 1,  antiargs |-> 1,  antioutputs |-> -1],
      [prim |-> "Try",   args |-> -1, outputs |-> -1, antiargs |-> -1, antioutputs |-> -1],
      [prim |-> "Throw", args |-> 2,  outputs |-> -1, antiargs |-> -1, antioutputs |-> -1],
      [prim |-> "Debug", args |-> 1,  outputs |-> -1, antiargs |-> -1, antioutputs |-> -1],
      [prim |-> "Noop",  args |-> 0,  outputs |-> -1, antiargs |-> -1, antioutputs |-> -1] }

\* the same entries of the current catalogue (modifiers declare no counts)
current_table ==
    { [prim |-> "Identity", args |-> 1,  outputs |-> 1,  antiargs |-> -1, antioutputs |-> -1],
      [prim |-> "Dup",      args |-> 1,  outputs |-> 2,  antiargs |-> -1, antioutputs |-> -1],
      [prim |-> "Over",     args |-> 2,  outputs |-> 3,  antiargs |-> -1, antioutputs |-> -1],
      [prim |-> "Flip",     args |-> 2,  outputs |-> 2,  antiargs |-> -1, antioutputs |-> -1],
      [prim |-> "Pop",      args |-> 1,  outputs |-> 0,  antiargs |-> -1, antioutputs |-> -1],
      [prim |-> "Try",      args |-> -1, outputs |-> -1, antiargs |-> -1, antioutputs |-> -1],
      [prim |-> "Assert",   args |-> 2,  outputs |-> 0,  antiargs |-> -1, antioutputs |-> -1],
      [prim |-> "Memo",     args |-> -1, outputs |-> -1, antiargs |-> -1, antioutputs |-> -1] }

table(d) == IF d = "legacy" THEN legacy_table ELSE current_table

entry(d, p) == CHOOSE e \in table(d) : e.prim = p

\* Primitive::args: Some(n) where the entry writes a count, else None (-1)
args(d, p) == entry(d, p).args

\* Primitive::outputs: the written count; the legacy `_ => Some(1)` arm gives 1
\* to every entry that writes none, the current catalogue gives None (-1)
outputs(d, p) ==
    LET e == entry(d, p)
    IN  IF e.outputs # -1 THEN e.outputs
        ELSE IF d = "legacy" THEN 1 ELSE -1

(***************************************************************************)
(* Primitive::run: the primitives that work on the stacks alone            *)
(***************************************************************************)
\* the match arms of the legacy Primitive::run
\* run_legacy with Save leaving the value it saves on the stack
run_legacy_save_copies(p, st) ==
    LET a  == top(st)
        s1 == pop(st)
        b  == top(s1)
        s2 == pop(s1)
    IN  CASE p = "Noop"  -> st
          [] p = "Debug" -> push(s1, a)
          [] p = "Dup"   -> push(push(s1, a), a)
          [] p = "Flip"  -> push(push(s2, a), b)
          [] p = "Over"  -> push(push(push(s2, b), a), b)
          [] p = "Pop"   -> s1
          [] p = "Save"  -> antipush(st, a)
          [] p = "Load"  -> push(antipop(st), antitop(st))
          [] p = "Throw" -> \* msg = a, cond = b; thrown unless cond is a natural other than 0
                            IF s2.ok /\ (as_nat(b) = -1 \/ as_nat(b) = 0)
                            THEN Fail(s2, a) ELSE s2
          [] p = "Under" -> \* f = a, g = b; f.invert(env)? of a value that is no function
                            IF s2.ok THEN Fail(s2, Str(4)) ELSE s2

\* the match arms of the legacy Primitive::run
run_legacy(p, st) ==
    LET a  == top(st)
        s1 == pop(st)
        b  == top(s1)
        s2 == pop(s1)
    IN  CASE p = "Noop"  -> st
          [] p = "Debug" -> push(s1, a)
          [] p = "Dup"   -> push(push(s1, a), a)
          [] p = "Flip"  -> push(push(s2, a), b)
          [] p = "Over"  -> push(push(push(s2, b), a), b)
          [] p = "Pop"   -> s1
          [] p = "Save"  -> antipush(s1, a)
          [] p = "Load"  -> push(antipop(st), antitop(st))
          [] p = "Throw" -> \* msg = a, cond = b; thrown unless cond is a natural other than 0
                            IF s2.ok /\ (as_nat(b) = -1 \/ as_nat(b) = 0)
                            THEN Fail(s2, a) ELSE s2
          [] p = "Under" -> \* f = a, g = b; f.invert(env)? of a value that is no function
                            IF s2.ok THEN Fail(s2, Str(4)) ELSE s2

(***************************************************************************)
(* Primitive::run: Rand and Gen                                            *)
(***************************************************************************)
\* A number is known by its bit pattern, written as a natural code: 0, 1, 2
\* for the naturals, 3 for one half.  The k-th output of a SmallRng seeded
\* with the pattern b has the code 4 + 2b + k, which tells apart the outputs
\* of different seeds and the two outputs of one seed.
\* f64::from_bits: the number that has the pattern c
from_bits(c) == [t |-> "bits", v |-> c]

\* the f64 of the half-open unit interval that Rng::gen makes of the output c
unit(c) == [t |-> "unit", v |-> c]

\* Value::as_num succeeds: the value is a number
is_num(v) == v.t \in {"num", "frac", "bits", "unit"}

\* f64::to_bits
to_bits(v) == IF v.t = "frac" THEN 3 ELSE v.v

\* SmallRng::seed_from_u64: a generator is its seed and how many outputs were drawn
seed_from_u64(b) == [seed |-> b, drawn |-> 0]

\* Rng::gen: the output drawn, and the generator afterwards
gen_output(r) == 4 + 2 * r.seed + r.drawn
gen_advance(r) == [r EXCEPT !.drawn = @ + 1]

\* pub fn random(): an f64 drawn from the thread-local generator
random(r) == unit(gen_output(r))

\* the arm of Gen drawing from the thread-local generator r in place of one
\* seeded with the popped seed
gen_thread_local(st, r) ==
    LET seed == top(st)
        s1 == pop(st)
    IN  IF ~s1.ok THEN s1
        ELSE IF ~is_num(seed) THEN Fail(s1, Str(6))
        ELSE LET val == unit(gen_output(r))
                 next_seed == from_bits(gen_output(gen_advance(r)))
             IN  push(push(s1, val), next_seed)

\* the arm of Gen; r is the thread-local generator, which the arm does not
\* consult; 6 is the message "Gen expects a number"
gen(st, r) ==
    LET seed == top(st)
        s1 == pop(st)
    IN  IF ~s1.ok THEN s1
        ELSE IF ~is_num(seed) THEN Fail(s1, Str(6))
        ELSE LET rng == seed_from_u64(to_bits(seed))
                 val == unit(gen_output(rng))
                 next_seed == from_bits(gen_output(gen_advance(rng)))
             IN  push(push(s1, val), next_seed)

\* fn trace(env, inverse): pop the value, show it, push it back; `inverse`
\* only changes the title printed
trace(st, inverse) == push(pop(st), top(st))

\* fn stack(env: &Uiua, inverse): shows a clone of the stack
stack_trace(st, inverse) == st

\* the arm of Assert with the test of the legacy Throw: thrown when the
\* condition is 0 or no natural
ThrowUnlessNonzero(st) ==
    LET a  == top(st)
        s1 == pop(st)
        b  == top(s1)
        s2 == pop(s1)
    IN  IF s2.ok /\ (as_nat(b) = -1 \/ as_nat(b) = 0) THEN Fail(s2, a) ELSE s2

\* the arm of Assert: msg = a, cond = b; thrown unless cond is the natural 1
ThrowUnlessOne(st) ==
    LET a  == top(st)
        s1 == pop(st)
        b  == top(s1)
        s2 == pop(s1)
    IN  IF s2.ok /\ as_nat(b) # 1 THEN Fail(s2, a) ELSE s2

\* run_current with Over pushing a, b, a in place of b, a, b
run_current_over_swapped(p, st) ==
    LET a  == top(st)
        s1 == pop(st)
        b  == top(s1)
        s2 == pop(s1)
    IN  CASE p = "Identity" -> st
          [] p = "Dup"      -> push(push(s1, a), a)
          [] p = "Flip"     -> push(push(s2, a), b)
          [] p = "Over"     -> push(push(push(s2, a), b), a)
          [] p = "Pop"      -> s1
          [] p = "Assert"   -> ThrowUnlessOne(st)
          [] p = "Dip"      -> Fail(st, Internal("Dip"))
          [] p = "Gap"      -> Fail(st, Internal("Gap"))
          [] p = "Un"       -> Fail(st, Internal("Invert"))
          [] p = "Under"    -> Fail(st, Internal("Under"))
          [] p = "Bind"     -> Fail(st, Internal("Bind"))
          [] p = "Both"     -> Fail(st, Internal("Both"))
          [] p = "Fork"     -> Fail(st, Internal("Fork"))
          [] p = "Cascade"  -> Fail(st, Internal("Cascade"))
          [] p = "Bracket"  -> Fail(st, Internal("Bracket"))
          [] p = "Comptime" -> Fail(st, Internal("Comptime"))
          [] p = "Trace"    -> trace(st, FALSE)
          [] p = "Stack"    -> stack_trace(st, FALSE)
          [] p = "InvTrace" -> trace(st, TRUE)
          [] p = "InvStack" -> stack_trace(st, TRUE)

\* the match arms of the current Primitive::run
run_current(p, st) ==
    LET a  == top(st)
        s1 == pop(st)
        b  == top(s1)
        s2 == pop(s1)
    IN  CASE p = "Identity" -> st
          [] p = "Dup"      -> push(push(s1, a), a)
          [] p = "Flip"     -> push(push(s2, a), b)
          [] p = "Over"     -> push(push(push(s2, b), a), b)
          [] p = "Pop"      -> s1
          [] p = "Assert"   -> ThrowUnlessOne(st)
          [] p = "Dip"      -> Fail(st, Internal("Dip"))
          [] p = "Gap"      -> Fail(st, Internal("Gap"))
          [] p = "Un"       -> Fail(st, Internal("Invert"))
          [] p = "Under"    -> Fail(st, Internal("Under"))
          [] p = "Bind"     -> Fail(st, Internal("Bind"))
          [] p = "Both"     -> Fail(st, Internal("Both"))
          [] p = "Fork"     -> Fail(st, Internal("Fork"))
          [] p = "Cascade"  -> Fail(st, Internal("Cascade"))
          [] p = "Bracket"  -> Fail(st, Internal("Bracket"))
          [] p = "Comptime" -> Fail(st, Internal("Comptime"))
          [] p = "Trace"    -> trace(st, FALSE)
          [] p = "Stack"    -> stack_trace(st, FALSE)
          [] p = "InvTrace" -> trace(st, TRUE)
          [] p = "InvStack" -> stack_trace(st, TRUE)

run(d, p, st) == IF d = "legacy" THEN run_legacy(p, st) ELSE run_current(p, st)

\* the primitives of each dispatcher that take no function
Simple(d) ==
    IF d = "legacy"
    THEN {"Noop", "Debug", "Dup", "Flip", "Over", "Pop", "Save", "Load", "Throw"}
    ELSE {"Identity", "Dup", "Flip", "Over", "Pop", "Assert"}

(***************************************************************************)
(* Functions: the bodies, handlers and memoized functions of the model     *)
(***************************************************************************)
\* an instruction of a function: a literal to push, or a primitive to run
Lit(v) == [op |-> "push", p |-> "", v |-> v]
Prim(p) == [op |-> "prim", p |-> p, v |-> NoVal]

\* the primitive that raises an error: Throw of the legacy table, Assert of the
\* current one; `0 "err" raise` fails under both
Raise(d) == IF d = "legacy" THEN "Throw" ELSE "Assert"

Throws(d, k) == <<Lit(Num(0)), Lit(Str(k)), Prim(Raise(d))>>

\* the functions, with the signature the current runtime keeps for each
Function(d, id) ==
    CASE id = "fail"     -> [args |-> 0, outputs |-> 0, code |-> Throws(d, 0)]
      [] id = "popfail"  -> [args |-> 1, outputs |-> 0, code |-> <<Prim("Pop")>> \o Throws(d, 0)]
      [] id = "pushfail" -> [args |-> 0, outputs |-> 1, code |-> <<Lit(Num(1))>> \o Throws(d, 0)]
      [] id = "savefail" -> [args |-> 1, outputs |-> 0, code |-> <<Prim("Save")>> \o Throws(d, 0)]
      [] id = "check"    -> [args |-> 2, outputs |-> 0, code |-> <<Prim(Raise(d))>>]
      [] id = "dup"      -> [args |-> 1, outputs |-> 2, code |-> <<Prim("Dup")>>]
      [] id = "keep"     -> [args |-> 0, outputs |-> 0, code |-> <<>>]
      [] id = "drop"     -> [args |-> 1, outputs |-> 0, code |-> <<Prim("Pop")>>]
      [] id = "rethrow"  -> [args |-> 0, outputs |-> 0, code |-> Throws(d, 3)]
      [] id = "pair"     -> [args |-> 1, outputs |-> 2, code |-> <<Lit(Num(0))>>]
      [] id = "const"    -> [args |-> 1, outputs |-> 1, code |-> <<Prim("Pop"), Lit(Num(0))>>]
      [] id = "guard"    -> [args |-> 1, outputs |-> 0, code |-> <<Lit(Str(0)), Prim("Assert")>>]
      [] id = "isone"    -> [args |-> 1, outputs |-> 1,
                              code |-> <<Prim("Dup"), Lit(Str(0)), Prim("Assert")>>]
      [] id = "same"     -> [args |-> 1, outputs |-> 1, code |-> <<>>]
      [] id = "flip"     -> [args |-> 2, outputs |-> 2, code |-> <<Prim("Flip")>>]
      [] id = "save"     -> [args |-> 1, outputs |-> 0, code |-> <<Prim("Save")>>]
      [] id = "load"     -> [args |-> 0, outputs |-> 1, code |-> <<Prim("Load")>>]

Bodies(d) ==
    IF d = "legacy" THEN {"fail", "popfail", "pushfail", "savefail", "check", "dup"}
    ELSE {"fail", "popfail", "pushfail", "check", "dup"}

Handlers == {"keep", "drop", "rethrow"}

Memoized == {"pair", "const", "check"}

\* the functions passed to Dump: "guard" does not have the signature |1.1
Dumped == {"isone", "same", "const", "guard"}

\* the instructions of a function body, one after the other, up to the first error
RECURSIVE Exec(_, _, _)
Exec(d, code, st) ==
    IF code = <<>> \/ ~st.ok THEN st
    ELSE LET ins == Head(code)
         IN  Exec(d, Tail(code),
                  IF ins.op = "push" THEN push(st, ins.v) ELSE run(d, ins.p, st))

\* env.call(f): enter the function and run its body
call(d, f, st) ==
    IF ~st.ok THEN st
    ELSE Exec(d, Function(d, f).code, [st EXCEPT !.calls = Append(@, f)])

\* env.call_clean_stack(f): call f; on failure drop what is above the height
\* the stack had below f's arguments
call_clean_stack(f, st) ==
    LET bottom == Max({0, Len(st.stack) - Function("current", f).args})
        r == call("current", f, st)
    IN  IF r.ok THEN r ELSE [r EXCEPT !.stack = truncate(@, bottom)]

(***************************************************************************)
(* Primitive::run: Try and Memo                                            *)
(***************************************************************************)
\* what the last instruction did: the primitive, its function operands, its
\* UiuaResult (ok, or the error value e), and what was seen on the way:
\*   pre, preAnti   the stack sizes when the instruction (for Try: the body) began
\*   caught         Try: the body failed and the handler was invoked
\*   m              Try: the value pushed for the handler
\*   hstack, hanti  Try: the stacks at the moment the handler is invoked;
\*                  Memo: the stacks at the moment f is entered
\*   key            Memo: the arguments popped, top first
\*   calls          the functions entered, in order
Idle ==
    [op |-> "idle", f |-> "", h |-> "", ok |-> TRUE, e |-> NoVal,
     pre |-> 0, preAnti |-> 0, caught |-> FALSE, m |-> NoVal,
     hstack |-> <<>>, hanti |-> <<>>, key |-> <<>>, calls |-> <<>>]

\* the outcome of an instruction: the environment it leaves and its record
Outcome(st, rec) == [st |-> st, last |-> [rec EXCEPT !.ok = st.ok, !.e = st.e, !.calls = st.calls]]

\* the error of an environment cleared, as after `if let Err(e) = ..`
Caught(st) == [st EXCEPT !.ok = TRUE, !.e = NoVal]

\* the `for item in unprocessed` loop of dump: push the item and call f; the
\* result of a call that succeeds is popped, the error of one that fails is
\* kept for display
RECURSIVE dump_items(_, _, _)
dump_items(f, unprocessed, st) ==
    IF unprocessed = <<>> \/ ~st.ok THEN st
    ELSE LET r == call("current", f, push(st, Head(unprocessed)))
         IN  IF r.ok THEN dump_items(f, Tail(unprocessed), pop(r))
             ELSE dump_items(f, Tail(unprocessed), Caught(r))

\* fn dump(env, inverse): f is the function popped; 5 is the message of the
\* signature test
dump(f, st, inverse) ==
    IF Function("current", f).args # 1 \/ Function("current", f).outputs # 1
    THEN Fail(st, Str(5))
    ELSE dump_items(f, clone_stack_top(st.stack, Len(st.stack)), st)

RECURSIVE push_all(_, _)
push_all(st, vals) == IF vals = <<>> THEN st ELSE push_all(push(st, Head(vals)), Tail(vals))

\* Primitive::Try of the legacy run: f and handler have been popped
TryLegacy(f, h, st) ==
    LET size == Len(st.stack)
        antisize == Len(st.anti)
        rec == [Idle EXCEPT !.op = "Try", !.f = f, !.h = h, !.pre = size, !.preAnti = antisize]
        r == call("legacy", f, st)
    IN  IF r.ok THEN Outcome(r, rec)
        ELSE LET t == [Caught(r) EXCEPT !.stack = truncate(@, size),
                                        !.anti = truncate(@, antisize)]
                 at == push(t, message(r.e))
             IN  Outcome(call("legacy", h, at),
                         [rec EXCEPT !.caught = TRUE, !.m = message(r.e),
                                     !.hstack = at.stack, !.hanti = at.anti])

\* TryCurrent without the loop that pushes the backup
TryCurrentNoBackup(f, h, st) ==
    LET rec == [Idle EXCEPT !.op = "Try", !.f = f, !.h = h,
                            !.pre = Len(st.stack), !.preAnti = Len(st.anti)]
        r == call_clean_stack(f, st)
    IN  IF r.ok THEN Outcome(r, rec)
        ELSE LET at == push(Caught(r), value(r.e))
             IN  Outcome(call("current", h, at),
                         [rec EXCEPT !.caught = TRUE, !.m = value(r.e),
                                     !.hstack = at.stack, !.hanti = at.anti])

\* TryCurrent invoking the handler after a body that succeeded as well
TryCurrentFinally(f, h, st) ==
    LET f_args == Function("current", f).args
        backup == clone_stack_top(st.stack, f_args)
        rec == [Idle EXCEPT !.op = "Try", !.f = f, !.h = h,
                            !.pre = Len(st.stack), !.preAnti = Len(st.anti)]
        r == call_clean_stack(f, st)
    IN  IF r.ok THEN Outcome(call("current", h, r), rec)
        ELSE LET at == push_all(push(Caught(r), value(r.e)), backup)
             IN  Outcome(call("current", h, at),
                         [rec EXCEPT !.caught = TRUE, !.m = value(r.e),
                                     !.hstack = at.stack, !.hanti = at.anti])

\* Primitive::Try of the current run: f and handler have been popped
TryCurrent(f, h, st) ==
    LET f_args == Function("current", f).args
        backup == clone_stack_top(st.stack, f_args)
        rec == [Idle EXCEPT !.op = "Try", !.f = f, !.h = h,
                            !.pre = Len(st.stack), !.preAnti = Len(st.anti)]
        r == call_clean_stack(f, st)
    IN  IF r.ok THEN Outcome(r, rec)
        ELSE LET at == push_all(push(Caught(r), value(r.e)), backup)
             IN  Outcome(call("current", h, at),
                         [rec EXCEPT !.caught = TRUE, !.m = value(r.e),
                                     !.hstack = at.stack, !.hanti = at.anti])

\* MemoGet looking the arguments up under any function
MemoGetAnyFunction(tbl, id, key) == {en \in tbl : en.args = key}

\* memo.get_mut(&f.id) then f_memo.get(&args): the entries found (one or none)
MemoGet(tbl, id, key) == {en \in tbl : en.id = id /\ en.args = key}

\* MemoRun pushing the arguments back in the order they were popped
MemoRunAsPopped(f, st, tbl) ==
    LET sig == Function("current", f)
        rec == [Idle EXCEPT !.op = "Memo", !.f = f,
                            !.pre = Len(st.stack), !.preAnti = Len(st.anti)]
    IN  IF Len(st.stack) < sig.args
        THEN \* a pop fails, after the pops that succeeded
             [out |-> Outcome(Fail([st EXCEPT !.stack = <<>>], Str(1)), rec), memo |-> tbl]
        ELSE LET key == [i \in 1..sig.args |-> st.stack[Len(st.stack) - i + 1]]
                 popped == [st EXCEPT !.stack = SubSeq(@, 1, Len(@) - sig.args)]
                 found == MemoGet(tbl, f, key)
                 rk == [rec EXCEPT !.key = key]
             IN  IF found # {}
                 THEN [out |-> Outcome(push_all(popped, (CHOOSE en \in found : TRUE).outputs), rk),
                       memo |-> tbl]
                 ELSE LET at == push_all(popped, key)
                          r == call("current", f, at)
                          outs == clone_stack_top(r.stack, sig.outputs)
                          rc == [rk EXCEPT !.hstack = at.stack, !.hanti = at.anti]
                      IN  IF ~r.ok THEN [out |-> Outcome(r, rc), memo |-> tbl]
                          ELSE [out |-> Outcome(r, rc),
                                memo |-> {en \in tbl : ~(en.id = f /\ en.args = key)}
                                           \cup {[id |-> f, args |-> key, outputs |-> outs]}]

\* Primitive::Memo of the current run: f has been popped.  The outcome and the
\* memo table it leaves.
MemoRun(f, st, tbl) ==
    LET sig == Function("current", f)
        rec == [Idle EXCEPT !.op = "Memo", !.f = f,
                            !.pre = Len(st.stack), !.preAnti = Len(st.anti)]
    IN  IF Len(st.stack) < sig.args
        THEN \* a pop fails, after the pops that succeeded
             [out |-> Outcome(Fail([st EXCEPT !.stack = <<>>], Str(1)), rec), memo |-> tbl]
        ELSE LET key == [i \in 1..sig.args |-> st.stack[Len(st.stack) - i + 1]]
                 popped == [st EXCEPT !.stack = SubSeq(@, 1, Len(@) - sig.args)]
                 found == MemoGet(tbl, f, key)
                 rk == [rec EXCEPT !.key = key]
             IN  IF found # {}
                 THEN [out |-> Outcome(push_all(popped, (CHOOSE en \in found : TRUE).outputs), rk),
                       memo |-> tbl]
                 ELSE LET at == push_all(popped, Reverse(key))
                          r == call("current", f, at)
                          outs == clone_stack_top(r.stack, sig.outputs)
                          rc == [rk EXCEPT !.hstack = at.stack, !.hanti = at.anti]
                      IN  IF ~r.ok THEN [out |-> Outcome(r, rc), memo |-> tbl]
                          ELSE [out |-> Outcome(r, rc),
                                memo |-> {en \in tbl : ~(en.id = f /\ en.args = key)}
                                           \cup {[id |-> f, args |-> key, outputs |-> outs]}]

(***************************************************************************)
(* The resolver as a state machine                                         *)
(***************************************************************************)
\* the threads that run Tag
Threads == 1..MaxThreads

\* no thread has run Tag yet: `AtomicUsize::new(0)`
TagIdle ==
    /\ NEXT_TAG = 0
    /\ tag = [t \in Threads |-> -1]
    /\ tstack = [t \in Threads |-> <<>>]

\* the instants at which a thread may first use its generator
Instants == {20, 21}

\* from_lines has not been called
DocIdle ==
    /\ s_lines = <<>>
    /\ line_no = 0
    /\ short = <<>>
    /\ lines = <<>>
    /\ returned = FALSE

\* no Gen has run, and the thread-local generator is as its first use makes it:
\* SmallRng::seed_from_u64(instant::now().to_bits())
GenIdle ==
    /\ RNG = seed_from_u64(Min(Instants))
    /\ gens = {}

RunIdle ==
    /\ dispatcher = "current"
    /\ stack = <<>>
    /\ antistack = <<>>
    /\ memo = {}
    /\ last = Idle

InitName ==
    /\ TagIdle
    /\ GenIdle
    /\ DocIdle
    /\ name \in Inputs
    /\ phase = "start"
    /\ start = 0
    /\ end = 0
    /\ prims = <<>>
    /\ fres = None
    /\ result = NoResult
    /\ consumed = NoConsumed
    /\ RunIdle

NextName == FormatName \/ MultiEnter \/ ForwardIter \/ BackwardIter

SpecName == InitName /\ [][NextName]_vars

\* the inputs whose calls are followed to their end: names, prefixes, planet
\* words, words that are no name, and the names that begin with "un" or "tr"
\* followed by a short planet word or by one another
LoopInputs ==
    LET heads == {t \in Texts : starts_with(t, <<"u", "n">>) \/ starts_with(t, <<"t", "r">>)}
    IN  NameChunks \cup PlanetWords \cup OtherWords
          \cup {a \o w : a \in heads, w \in ShortPlanet}
          \cup {a \o b : a \in heads, b \in heads}

InitNameFair ==
    /\ InitName
    /\ name \in LoopInputs

\* the call is over: it has returned, or it has panicked
Stopped == phase \in {"single", "done", "panic"}

\* a call that has begun goes on: the thread that runs the resolver keeps
\* taking steps until the call is over
KeepsRunning == []<>Stopped \/ []<><<NextName>>_vars

SpecNameFair == InitNameFair /\ [][NextName]_vars /\ KeepsRunning

(***************************************************************************)
(* The name resolver of the legacy table                                   *)
(* (Primitive::from_name, Primitive::from_multiname)                       *)
(***************************************************************************)
\* the letters of the names offered to the legacy resolver
LegacyLetters == {"a", "d", "n", "o", "t", "p"}

\* the entries of the legacy Primitive::ALL whose names begin with three of
\* LegacyLetters, and Pi, in enumeration order
LegacyNamed ==
  << [prim |-> "Pop", text |-> <<"p","o","p">>],
     [prim |-> "Not", text |-> <<"n","o","t">>],
     [prim |-> "Ne", text |-> <<"n","o","t"," ","e","q","u","a","l","s">>],
     [prim |-> "Add", text |-> <<"a","d","d">>],
     [prim |-> "Atan", text |-> <<"a","t","a","n","g","e","n","t">>],
     [prim |-> "NoMatch", text |-> <<"n","o","t","m","a","t","c","h">>],
     [prim |-> "Noop", text |-> <<"n","o","o","p">>],
     [prim |-> "Pi", text |-> <<"p","i">>] >>

\* IoOp::from_name: no I/O operation has a name made of LegacyLetters
IoOp_from_name(s) == None

\* Primitive::from_name of the legacy table
from_name_legacy(s) ==
    IF \E k \in 1..Len(s) : is_uppercase(s[k]) THEN None
    ELSE IF IoOp_from_name(s) # None THEN IoOp_from_name(s)
    ELSE IF s = <<"p", "i">> \/ s = <<"π">> THEN "Pi"
    ELSE IF len(s) < 3 THEN None
    ELSE LET matching == {k \in 1..Len(LegacyNamed) : starts_with(LegacyNamed[k].text, s)}
         IN  IF matching = {} THEN None
             ELSE LET res == LegacyNamed[Min(matching)]
                  IN  IF res.text = s \/ Cardinality(matching) = 1
                      THEN res.prim
                      ELSE None

\* str::is_char_boundary
is_char_boundary(s, b) == b = len(s) \/ \E k \in 1..Len(s) : char_indices(s)[k] = b

\* `for len in (3..=name.len() - start).rev()` of from_multiname, from ln
\* down: "take" with the first len whose slice is a name, "none" when the range
\* is used up, "index" when indices[..] is out of bounds, "slice" when the
\* byte range start_index..=end_index does not lie on character boundaries
RECURSIVE MultinameLen(_, _, _)
MultinameLen(s, st, ln) ==
    IF ln < 3 THEN [kind |-> "none", len |-> 0]
    ELSE LET indices == char_indices(s)
         IN  IF st >= Len(indices) \/ st + ln - 1 >= Len(indices)
             THEN [kind |-> "index", len |-> ln]
             ELSE LET start_index == indices[st + 1]
                      end_index == indices[st + ln]
                  IN  IF ~is_char_boundary(s, start_index)
                           \/ ~is_char_boundary(s, end_index + 1)
                      THEN [kind |-> "slice", len |-> ln]
                      ELSE IF from_name_legacy(Slice(s, start_index, end_index + 1)) # None
                      THEN [kind |-> "take", len |-> ln]
                      ELSE MultinameLen(s, st, ln - 1)

\* entry of from_multiname: the test for pi and the `name.len() < 3` test
MultinameEnter ==
    /\ phase = "start"
    /\ dispatcher = "legacy"
    /\ IF name = <<"p", "i">> \/ name = <<"π">>
       THEN /\ phase' = "done"
            /\ result' = Some(<<[prim |-> "Pi", text |-> name, at |-> 0]>>)
       ELSE IF len(name) < 3
       THEN /\ phase' = "done"
            /\ result' = NoResult
       ELSE /\ phase' = "multiname"
            /\ result' = result
    /\ start' = 0
    /\ prims' = <<>>
    /\ UNCHANGED <<name, end, fres, consumed>>
    /\ UNCHANGED runVars
    /\ UNCHANGED <<tagVars, genVars, docVars>>

\* one iteration of the `'outer: loop` of from_multiname
MultinameIter ==
    /\ phase = "multiname"
    /\ IF start = len(name)
       THEN /\ phase' = "done"
            /\ result' = Some(prims)
            /\ UNCHANGED <<start, prims, consumed>>
       ELSE \E r \in {MultinameLen(name, start, len(name) - start)} :
            IF r.kind = "take"
            THEN \E sub_name \in {Slice(name, char_indices(name)[start + 1],
                                        char_indices(name)[start + r.len] + 1)} :
                 /\ prims' = Append(prims, [prim |-> from_name_legacy(sub_name),
                                            text |-> sub_name,
                                            at |-> char_indices(name)[start + 1]])
                 /\ start' = start + r.len
                 /\ consumed' = [scan |-> "multiname", at |-> start, len |-> r.len,
                                 sub |-> sub_name, planet |-> FALSE]
                 /\ UNCHANGED <<phase, result>>
            ELSE IF r.kind = "none"
            THEN \* break None
                 /\ phase' = "done"
                 /\ result' = NoResult
                 /\ UNCHANGED <<start, prims, consumed>>
            ELSE \* indices[..] out of bounds, or a slice inside a character
                 /\ phase' = "panic"
                 /\ consumed' = [scan |-> r.kind, at |-> start, len |-> r.len,
                                 sub |-> <<>>, planet |-> FALSE]
                 /\ UNCHANGED <<start, prims, result>>
    /\ UNCHANGED <<name, end, fres>>
    /\ UNCHANGED runVars
    /\ UNCHANGED <<tagVars, genVars, docVars>>

\* names, prefixes of names, and words that are no name: too short, uppercase,
\* or with the two-byte character
LegacyChunks ==
    { <<"p","o","p">>, <<"n","o","t">>, <<"a","d","d">>, <<"n","o","o">>,
      <<"n","o","o","p">>, <<"a","t","a">>, <<"a","t","a","n">>, <<"p","i">>,
      <<"π">>, <<"a","d">>, <<"t","o","p">>, <<"R","o","t">>, <<>> }

LegacyInputs == {a \o b : a \in LegacyChunks, b \in LegacyChunks}

InitMultiname ==
    /\ TagIdle
    /\ GenIdle
    /\ DocIdle
    /\ name \in LegacyInputs
    /\ phase = "start"
    /\ start = 0
    /\ end = 0
    /\ prims = <<>>
    /\ fres = None
    /\ result = NoResult
    /\ consumed = NoConsumed
    /\ dispatcher = "legacy"
    /\ stack = <<>>
    /\ antistack = <<>>
    /\ memo = {}
    /\ last = Idle

NextMultiname == MultinameEnter \/ MultinameIter

SpecMultiname == InitMultiname /\ [][NextMultiname]_vars

(***************************************************************************)
(* The dispatcher as a state machine                                       *)
(***************************************************************************)
\* the numbers a program pushes: the conditions of Throw (n == 0) and of
\* Assert (n == 1) tell 0, 1 and any other number apart
Pushed == {Num(0), Num(1), Num(2)}

NameIdle ==
    /\ name = <<>>
    /\ phase = "off"
    /\ start = 0
    /\ end = 0
    /\ prims = <<>>
    /\ fres = None
    /\ result = NoResult
    /\ consumed = NoConsumed

\* a fresh runtime under either dispatcher
Init ==
    /\ TagIdle
    /\ GenIdle
    /\ DocIdle
    /\ dispatcher \in {"legacy", "current"}
    /\ stack = <<>>
    /\ antistack = <<>>
    /\ memo = {}
    /\ last = Idle
    /\ NameIdle

\* a run goes on while no error has surfaced and the stacks hold the numbers a
\* program pushes (an error value left on the stack by a handler ends the
\* runs the model follows)
Running ==
    /\ last.ok
    /\ \A k \in 1..Len(stack) : stack[k] \in Pushed
    /\ \A k \in 1..Len(antistack) : antistack[k] \in Pushed

\* the instruction leaves the environment o.st and the record o.last, within
\* the bounds of the model
Leaves(o) ==
    /\ Len(o.st.stack) <= MaxStack
    /\ Len(o.st.anti) <= MaxAnti
    /\ stack' = o.st.stack
    /\ antistack' = o.st.anti
    /\ last' = o.last

\* a literal: env.push(value)
PushValue ==
    /\ Running
    /\ \E v \in Pushed :
          Leaves(Outcome(push(Env(stack, antistack), v),
                         [Idle EXCEPT !.op = "push", !.pre = Len(stack),
                                      !.preAnti = Len(antistack)]))
    /\ UNCHANGED <<dispatcher, memo>>
    /\ UNCHANGED nameVars
    /\ UNCHANGED <<tagVars, genVars, docVars>>

\* Primitive::run of a primitive that takes no function
RunPrimitive ==
    /\ Running
    /\ \E p \in Simple(dispatcher) :
          Leaves(Outcome(run(dispatcher, p, Env(stack, antistack)),
                         [Idle EXCEPT !.op = p, !.pre = Len(stack),
                                      !.preAnti = Len(antistack)]))
    /\ UNCHANGED <<dispatcher, memo>>
    /\ UNCHANGED nameVars
    /\ UNCHANGED <<tagVars, genVars, docVars>>

\* Primitive::run of Try, with its two function operands
RunTry ==
    /\ Running
    /\ \E f \in Bodies(dispatcher), h \in Handlers :
          Leaves(IF dispatcher = "legacy"
                 THEN TryLegacy(f, h, Env(stack, antistack))
                 ELSE TryCurrent(f, h, Env(stack, antistack)))
    /\ UNCHANGED <<dispatcher, memo>>
    /\ UNCHANGED nameVars
    /\ UNCHANGED <<tagVars, genVars, docVars>>

\* Primitive::run of Memo, with its function operand
RunMemo ==
    /\ Running
    /\ dispatcher = "current"
    /\ \E f \in Memoized :
          LET r == MemoRun(f, Env(stack, antistack), memo)
          IN  /\ Leaves(r.out)
              /\ memo' = r.memo
    /\ UNCHANGED dispatcher
    /\ UNCHANGED nameVars
    /\ UNCHANGED <<tagVars, genVars, docVars>>

Next == PushValue \/ RunPrimitive \/ RunTry

Spec == Init /\ [][Next]_vars

\* a fresh runtime under the current dispatcher, the one that has Memo
InitMemo ==
    /\ Init
    /\ dispatcher = "current"

NextMemo == PushValue \/ RunPrimitive \/ RunMemo

SpecMemo == InitMemo /\ [][NextMemo]_vars

(***************************************************************************)
(* The dispatcher over every kind of value                                 *)
(***************************************************************************)
\* the values a stack may hold: naturals, a number that is no natural, a string
Values == Pushed \cup {Frac, Str(0)}

\* the modifiers the compiler must have eliminated before execution
Modifiers(d) ==
    IF d = "legacy" THEN {"Under"}
    ELSE {"Dip", "Gap", "Un", "Under", "Bind", "Both", "Fork", "Cascade", "Bracket", "Comptime"}

\* the diagnostic primitives that take no function (Debug of the legacy table
\* is among Simple)
Diagnostics(d) ==
    IF d = "legacy" THEN {} ELSE {"Trace", "Stack", "InvTrace", "InvStack"}

\* a literal of any kind: env.push(value)
PushAny ==
    /\ last.ok
    /\ \E v \in Values :
          Leaves(Outcome(push(Env(stack, antistack), v),
                         [Idle EXCEPT !.op = "push", !.pre = Len(stack),
                                      !.preAnti = Len(antistack)]))
    /\ UNCHANGED <<dispatcher, memo>>
    /\ UNCHANGED nameVars
    /\ UNCHANGED <<tagVars, genVars, docVars>>

\* Primitive::run of a primitive, the modifiers among them, on any stack
RunAny ==
    /\ last.ok
    /\ \E p \in Simple(dispatcher) \cup Modifiers(dispatcher) \cup Diagnostics(dispatcher) :
          Leaves(Outcome(run(dispatcher, p, Env(stack, antistack)),
                         [Idle EXCEPT !.op = p, !.pre = Len(stack),
                                      !.preAnti = Len(antistack)]))
    /\ UNCHANGED <<dispatcher, memo>>
    /\ UNCHANGED nameVars
    /\ UNCHANGED <<tagVars, genVars, docVars>>

\* Primitive::run of Dump (and of its Un form), with its function operand
RunDump ==
    /\ last.ok
    /\ dispatcher = "current"
    /\ \E f \in Dumped, inverse \in BOOLEAN :
          Leaves(Outcome(dump(f, Env(stack, antistack), inverse),
                         [Idle EXCEPT !.op = IF inverse THEN "InvDump" ELSE "Dump",
                                      !.f = f, !.pre = Len(stack),
                                      !.preAnti = Len(antistack)]))
    /\ UNCHANGED <<dispatcher, memo>>
    /\ UNCHANGED nameVars
    /\ UNCHANGED <<tagVars, genVars, docVars>>

NextValues == PushAny \/ RunAny \/ RunDump

SpecValues == Init /\ [][NextValues]_vars

(***************************************************************************)
(* Primitive::run: Tag, run by several threads of one process              *)
(***************************************************************************)
\* fetch_add that leaves the counter as it was
fetch_add_lost(c, n) == c

\* AtomicUsize::fetch_add: the value the counter holds afterwards; it wraps
\* at the width of usize, which the MaxTag invocations followed stay far below
fetch_add(c, n) == c + n

\* `let tag = NEXT_TAG.fetch_add(1, atomic::Ordering::Relaxed);` in thread t:
\* one atomic read-modify-write
TagFetch(t) ==
    /\ tag[t] = -1
    /\ NEXT_TAG < MaxTag
    /\ tag' = [tag EXCEPT ![t] = NEXT_TAG]
    /\ NEXT_TAG' = fetch_add(NEXT_TAG, 1)
    /\ UNCHANGED tstack
    /\ UNCHANGED <<nameVars, runVars, genVars, docVars>>

\* `env.push(tag);` in thread t, onto the stack of that thread's runtime
TagPush(t) ==
    /\ tag[t] # -1
    /\ tstack' = [tstack EXCEPT ![t] = Append(@, tag[t])]
    /\ tag' = [tag EXCEPT ![t] = -1]
    /\ UNCHANGED NEXT_TAG
    /\ UNCHANGED <<nameVars, runVars, genVars, docVars>>

InitTag == RunIdle /\ NameIdle /\ TagIdle /\ GenIdle /\ DocIdle

NextTag == \E t \in Threads : TagFetch(t) \/ TagPush(t)

SpecTag == InitTag /\ [][NextTag]_vars

(***************************************************************************)
(* Primitive::run: Rand and Gen, on stacks of numbers and strings          *)
(***************************************************************************)
\* the literals a program pushes before Gen: seeds, and a string
Seeds == {Num(0), Str(0)}

\* a runtime whose thread first used its generator at any instant
InitGen ==
    /\ RunIdle
    /\ NameIdle
    /\ TagIdle
    /\ RNG \in {seed_from_u64(i) : i \in Instants}
    /\ gens = {}
    /\ DocIdle

\* what SpecGen records of an instruction: the primitive and its UiuaResult
Did(p) == [Idle EXCEPT !.op = p]

\* a literal: env.push(value)
PushSeed ==
    /\ last.ok
    /\ \E v \in Seeds : Leaves(Outcome(push(Env(stack, antistack), v), Did("push")))
    /\ UNCHANGED <<dispatcher, memo>>
    /\ UNCHANGED <<nameVars, tagVars, genVars, docVars>>

\* Primitive::run of Pop, which uncovers what lies below
RunPop ==
    /\ last.ok
    /\ Leaves(Outcome(run_current("Pop", Env(stack, antistack)), Did("Pop")))
    /\ UNCHANGED <<dispatcher, memo>>
    /\ UNCHANGED <<nameVars, tagVars, genVars, docVars>>

\* Primitive::run of Rand: env.push(random())
RunRand ==
    /\ last.ok
    /\ RNG.drawn < MaxRand
    /\ Leaves(Outcome(push(Env(stack, antistack), random(RNG)), Did("Rand")))
    /\ RNG' = gen_advance(RNG)
    /\ UNCHANGED <<dispatcher, memo, gens>>
    /\ UNCHANGED <<nameVars, tagVars, docVars>>

\* whether the values below the top of `before` are the bottom of `after`
KeptBelow(before, after) ==
    /\ Len(after) >= Len(before) - 1
    /\ \A k \in 1..(Len(before) - 1) : after[k] = before[k]

\* the values of `after` that lie above the values below the top of `before`
Above(before, after) == SubSeq(after, Max({1, Len(before)}), Len(after))

\* Primitive::run of Gen; the invocation is recorded in gens: the seed it
\* found (NoVal on an empty stack), how many values lay below, whether they
\* were kept, what lies above them afterwards, and the thread-local generator
RunGen ==
    /\ last.ok
    /\ Cardinality(gens) < MaxGen
    /\ LET st == Env(stack, antistack)
           o == Outcome(gen(st, RNG), Did("Gen"))
       IN  /\ Leaves(o)
           /\ gens' = gens \cup {[seed |-> top(st), below |-> Len(pop(st).stack),
                                  kept |-> KeptBelow(stack, o.st.stack),
                                  pushed |-> Above(stack, o.st.stack),
                                  ok |-> o.st.ok, RNG |-> RNG]}
    /\ UNCHANGED <<dispatcher, memo, RNG>>
    /\ UNCHANGED <<nameVars, tagVars, docVars>>

NextGen == PushSeed \/ RunPop \/ RunRand \/ RunGen

SpecGen == InitGen /\ [][NextGen]_vars

(***************************************************************************)
(* The catalogue lookups of both tables                                    *)
(***************************************************************************)
\* Primitive::ALL of the legacy table, with what each entry writes after the
\* identifier: its name, its ASCII token (lex::Simple) and its character (a
\* character outside ASCII is written as its code point)
ALL ==
  << [prim |-> "Dup", name |-> "duplicate", ascii |-> None, unicode |-> "."],
     [prim |-> "Over", name |-> "over", ascii |-> None, unicode |-> ","],
     [prim |-> "Flip", name |-> "flip", ascii |-> None, unicode |-> "~"],
     [prim |-> "Pop", name |-> "pop", ascii |-> None, unicode |-> ";"],
     [prim |-> "Save", name |-> "save", ascii |-> None, unicode |-> "U+21DF"],
     [prim |-> "Load", name |-> "load", ascii |-> None, unicode |-> "U+21DE"],
     [prim |-> "Not", name |-> "not", ascii |-> None, unicode |-> "U+00AC"],
     [prim |-> "Sign", name |-> "sign", ascii |-> None, unicode |-> "$"],
     [prim |-> "Neg", name |-> "negate", ascii |-> "Backtick", unicode |-> "U+00AF"],
     [prim |-> "Abs", name |-> "absolute value", ascii |-> None, unicode |-> "U+2335"],
     [prim |-> "Sqrt", name |-> "sqrt", ascii |-> None, unicode |-> "U+221A"],
     [prim |-> "Sin", name |-> "sine", ascii |-> None, unicode |-> None],
     [prim |-> "Cos", name |-> "cosine", ascii |-> None, unicode |-> None],
     [prim |-> "Asin", name |-> "asine", ascii |-> None, unicode |-> None],
     [prim |-> "Acos", name |-> "acosine", ascii |-> None, unicode |-> None],
     [prim |-> "Floor", name |-> "floor", ascii |-> None, unicode |-> "U+230A"],
     [prim |-> "Ceil", name |-> "ceiling", ascii |-> None, unicode |-> "U+2308"],
     [prim |-> "Round", name |-> "round", ascii |-> None, unicode |-> "U+2045"],
     [prim |-> "Eq", name |-> "equals", ascii |-> "Equal", unicode |-> None],
     [prim |-> "Ne", name |-> "not equals", ascii |-> "BangEqual", unicode |-> "U+2260"],
     [prim |-> "Lt", name |-> "less than", ascii |-> None, unicode |-> "<"],
     [prim |-> "Le", name |-> "less or equal", ascii |-> "LessEqual", unicode |-> "U+2264"],
     [prim |-> "Gt", name |-> "greater than", ascii |-> None, unicode |-> ">"],
     [prim |-> "Ge", name |-> "greater or equal", ascii |-> "GreaterEqual", unicode |-> "U+2265"],
     [prim |-> "Add", name |-> "add", ascii |-> None, unicode |-> "+"],
     [prim |-> "Sub", name |-> "subtract", ascii |-> None, unicode |-> "-"],
     [prim |-> "Mul", name |-> "multiply", ascii |-> "Star", unicode |-> "U+00D7"],
     [prim |-> "Div", name |-> "divide", ascii |-> "Percent", unicode |-> "U+00F7"],
     [prim |-> "Mod", name |-> "modulus", ascii |-> None, unicode |-> "U+25FF"],
     [prim |-> "Pow", name |-> "power", ascii |-> None, unicode |-> "U+207F"],
     [prim |-> "Log", name |-> "log", ascii |-> None, unicode |-> None],
     [prim |-> "Min", name |-> "minimum", ascii |-> None, unicode |-> "U+21A7"],
     [prim |-> "Max", name |-> "maximum", ascii |-> None, unicode |-> "U+21A5"],
     [prim |-> "Atan", name |-> "atangent", ascii |-> None, unicode |-> None],
     [prim |-> "Len", name |-> "length", ascii |-> None, unicode |-> "U+2262"],
     [prim |-> "Rank", name |-> "rank", ascii |-> None, unicode |-> "U+2234"],
     [prim |-> "Shape", name |-> "shape", ascii |-> None, unicode |-> "U+25B3"],
     [prim |-> "Range", name |-> "range", ascii |-> None, unicode |-> "U+21E1"],
     [prim |-> "First", name |-> "first", ascii |-> None, unicode |-> "U+22A2"],
     [prim |-> "Last", name |-> None, ascii |-> None, unicode |-> None],
     [prim |-> "Fill", name |-> "fill", ascii |-> None, unicode |-> "U+2218"],
     [prim |-> "Truncate", name |-> "truncate", ascii |-> None, unicode |-> "U+235B"],
     [prim |-> "Reverse", name |-> "reverse", ascii |-> None, unicode |-> "U+21CC"],
     [prim |-> "Deshape", name |-> "deshape", ascii |-> None, unicode |-> "U+266D"],
     [prim |-> "Transpose", name |-> "transpose", ascii |-> None, unicode |-> "U+2349"],
     [prim |-> "InvTranspose", name |-> None, ascii |-> None, unicode |-> None],
     [prim |-> "Sort", name |-> "sort", ascii |-> None, unicode |-> "U+2227"],
     [prim |-> "Grade", name |-> "grade", ascii |-> None, unicode |-> "U+234B"],
     [prim |-> "Indices", name |-> "indices", ascii |-> None, unicode |-> "U+2299"],
     [prim |-> "Classify", name |-> "classify", ascii |-> None, unicode |-> "U+229B"],
     [prim |-> "Deduplicate", name |-> "deduplicate", ascii |-> None, unicode |-> "U+229D"],
     [prim |-> "Match", name |-> "match", ascii |-> None, unicode |-> "U+2245"],
     [prim |-> "NoMatch", name |-> "notmatch", ascii |-> None, unicode |-> "U+2247"],
     [prim |-> "Join", name |-> "join", ascii |-> None, unicode |-> "U+2282"],
     [prim |-> "Couple", name |-> "couple", ascii |-> None, unicode |-> "U+229F"],
     [prim |-> "Pick", name |-> "pick", ascii |-> None, unicode |-> "U+22A1"],
     [prim |-> "Select", name |-> "select", ascii |-> None, unicode |-> "U+228F"],
     [prim |-> "Take", name |-> "take", ascii |-> None, unicode |-> "U+2199"],
     [prim |-> "Drop", name |-> "drop", ascii |-> None, unicode |-> "U+2198"],
     [prim |-> "Reshape", name |-> "reshape", ascii |-> None, unicode |-> "U+21AF"],
     [prim |-> "Rotate", name |-> "rotate", ascii |-> None, unicode |-> "U+21BB"],
     [prim |-> "Windows", name |-> "windows", ascii |-> None, unicode |-> "U+25EB"],
     [prim |-> "Replicate", name |-> "replicate", ascii |-> None, unicode |-> "U+2021"],
     [prim |-> "Member", name |-> "member", ascii |-> None, unicode |-> "U+220A"],
     [prim |-> "Find", name |-> "find", ascii |-> None, unicode |-> "U+2315"],
     [prim |-> "IndexOf", name |-> "indexof", ascii |-> None, unicode |-> "U+2297"],
     [prim |-> "Group", name |-> "group", ascii |-> None, unicode |-> "U+2295"],
     [prim |-> "Partition", name |-> "partition", ascii |-> None, unicode |-> "U+2298"],
     [prim |-> "Reduce", name |-> "reduce", ascii |-> None, unicode |-> "/"],
     [prim |-> "Fold", name |-> "fold", ascii |-> None, unicode |-> "U+233F"],
     [prim |-> "Scan", name |-> "scan", ascii |-> None, unicode |-> "\\"],
     [prim |-> "Each", name |-> "each", ascii |-> None, unicode |-> "U+2235"],
     [prim |-> "Zip", name |-> "zip", ascii |-> None, unicode |-> "U+223A"],
     [prim |-> "Rows", name |-> "rows", ascii |-> None, unicode |-> "U+2261"],
     [prim |-> "Bridge", name |-> "bridge", ascii |-> None, unicode |-> "U+2251"],
     [prim |-> "Distribute", name |-> "distribute", ascii |-> None, unicode |-> "U+2239"],
     [prim |-> "Table", name |-> "table", ascii |-> None, unicode |-> "U+229E"],
     [prim |-> "Repeat", name |-> "repeat", ascii |-> None, unicode |-> "U+2365"],
     [prim |-> "Invert", name |-> "invert", ascii |-> None, unicode |-> "U+21B6"],
     [prim |-> "Under", name |-> "under", ascii |-> None, unicode |-> "U+235C"],
     [prim |-> "Level", name |-> "level", ascii |-> None, unicode |-> "U+235A"],
     [prim |-> "Try", name |-> "try", ascii |-> None, unicode |-> "?"],
     [prim |-> "Throw", name |-> "throw", ascii |-> None, unicode |-> "!"],
     [prim |-> "Break", name |-> "break", ascii |-> None, unicode |-> "U+238B"],
     [prim |-> "Recur", name |-> "recur", ascii |-> None, unicode |-> "U+21AC"],
     [prim |-> "Debug", name |-> "debug", ascii |-> None, unicode |-> "|"],
     [prim |-> "Call", name |-> "call", ascii |-> None, unicode |-> ":"],
     [prim |-> "Noop", name |-> "noop", ascii |-> None, unicode |-> "U+00B7"],
     [prim |-> "String", name |-> "string", ascii |-> None, unicode |-> None],
     [prim |-> "Parse", name |-> "parsenumber", ascii |-> None, unicode |-> None],
     [prim |-> "Use", name |-> "use", ascii |-> None, unicode |-> None],
     [prim |-> "Pi", name |-> "pi", ascii |-> None, unicode |-> "U+03C0"],
     [prim |-> "Infinity", name |-> "infinity", ascii |-> None, unicode |-> "U+221E"] >>

\* the glyph of an entry of the current catalogue (names().glyph), a character
\* outside ASCII written as its code point
glyph(e) ==
    CASE e.prim = "Dup" -> "."
      [] e.prim = "Pop" -> ";"
      [] e.prim = "Identity" -> "U+2218"
      [] e.prim = "Pi" -> "U+03C0"
      [] e.prim = "Range" -> "U+21E1"
      [] e.prim = "Reverse" -> "U+21CC"
      [] e.prim = "Transpose" -> "U+2349"
      [] e.prim = "Parse" -> "U+22D5"
      [] e.prim = "Pick" -> "U+22A1"
      [] e.prim = "Reshape" -> "U+21AF"
      [] e.prim = "Rerank" -> "U+2607"
      [] e.prim = "Keep" -> "U+25BD"
      [] e.prim = "Reduce" -> "/"
      [] e.prim = "Table" -> "U+229E"
      [] e.prim = "Cross" -> "U+22A0"
      [] e.prim = "Do" -> "U+2362"
      [] e.prim = "Partition" -> "U+229C"
      [] e.prim = "Unpack" -> "U+2290"
      [] e.prim = "Gap" -> "U+22C5"
      [] e.prim = "Dip" -> "U+2299"
      [] e.prim = "Fork" -> "U+2283"
      [] e.prim = "Cascade" -> "U+2ABE"
      [] e.prim = "Un" -> "U+00B0"
      [] e.prim = "Under" -> "U+235C"
      [] e.prim = "Recur" -> "U+21AB"
      [] e.prim = "Try" -> "U+2363"
      [] e.prim = "Rand" -> "U+2682"
      [] e.prim = "Trace" -> "U+2E2E"
      [] e.prim = "Rectify" -> "U+2305"
      [] OTHER -> None

\* the ASCII token of an entry of the current catalogue (names().ascii): no
\* entry of this part of the catalogue has one
ascii(e) == None

\* the catalogue a dispatcher's lookups consult
catalogue(d) == IF d = "legacy" THEN ALL ELSE all

\* name_of with names told apart by their first three characters only
name_of_short(d, e) ==
    IF d = "legacy" THEN e.name ELSE SubSeq(e.text, 1, Min({3, Len(e.text)}))

\* Primitive::name: an Option in the legacy table, always present in the current
name_of(d, e) == IF d = "legacy" THEN e.name ELSE e.text

\* Primitive::ascii
ascii_of(d, e) == IF d = "legacy" THEN e.ascii ELSE ascii(e)

\* Primitive::glyph (current) / Primitive::unicode (legacy)
glyph_of(d, e) == IF d = "legacy" THEN e.unicode ELSE glyph(e)

\* Iterator::find over a catalogue: the first of the entries, given by their
\* positions, that satisfy the test
find(cat, hits) == IF hits = {} THEN None ELSE cat[Min(hits)].prim

\* Primitive::from_name: Self::all().find(|p| p.name() == name)
from_name(s) == find(all, {k \in 1..Len(all) : name_of("current", all[k]) = s})

\* Primitive::from_ascii (current) / Primitive::from_simple (legacy)
from_ascii(d, s) ==
    find(catalogue(d), {k \in 1..Len(catalogue(d)) : ascii_of(d, catalogue(d)[k]) = s})

\* from_glyph comparing the ASCII token in place of the glyph
from_glyph_by_ascii(d, c) ==
    find(catalogue(d), {k \in 1..Len(catalogue(d)) : ascii_of(d, catalogue(d)[k]) = c})

\* Primitive::from_glyph (current) / Primitive::from_unicode (legacy)
from_glyph(d, c) ==
    find(catalogue(d), {k \in 1..Len(catalogue(d)) : glyph_of(d, catalogue(d)[k]) = c})

\* Primitive::inverse of the legacy table
inverse(p) ==
    CASE p = "Flip" -> "Flip"
      [] p = "Neg" -> "Neg"
      [] p = "Not" -> "Not"
      [] p = "Sin" -> "Asin"
      [] p = "Cos" -> "Acos"
      [] p = "Reverse" -> "Reverse"
      [] p = "Save" -> "Load"
      [] p = "Load" -> "Save"
      [] p = "Transpose" -> "InvTranspose"
      [] p = "InvTranspose" -> "Transpose"
      [] p = "Debug" -> "Debug"
      [] OTHER -> None

\* Display with the ASCII token tried ahead of the glyph
DisplayAsciiFirst(d, e) ==
    IF ascii_of(d, e) # None THEN <<"ascii", ascii_of(d, e)>>
    ELSE IF glyph_of(d, e) # None THEN <<"glyph", glyph_of(d, e)>>
    ELSE IF name_of(d, e) # None THEN <<"name", name_of(d, e)>>
    ELSE <<"debug", e.prim>>

\* impl fmt::Display for Primitive: what is written, and by which branch.  The
\* name of the current catalogue is no Option, so its third branch always
\* writes; the `{:?}` branch of the legacy table writes the variant's identifier
Display(d, e) ==
    IF glyph_of(d, e) # None THEN <<"glyph", glyph_of(d, e)>>
    ELSE IF ascii_of(d, e) # None THEN <<"ascii", ascii_of(d, e)>>
    ELSE IF name_of(d, e) # None THEN <<"name", name_of(d, e)>>
    ELSE <<"debug", e.prim>>

(***************************************************************************)
(* The lookups as a state machine: one lookup of one input                 *)
(***************************************************************************)
\* the primitives of a catalogue
Primitives(d) == {catalogue(d)[k].prim : k \in 1..Len(catalogue(d))}

\* the entries of a catalogue
EntriesOf(d) == {catalogue(d)[k] : k \in 1..Len(catalogue(d))}

\* the entry of a primitive
EntryOf(d, p) == CHOOSE e \in EntriesOf(d) : e.prim = p

\* names offered to from_name: names, prefixes of names, and words that are none
NameInputs == NameChunks \cup OtherWords

\* characters offered to from_glyph / from_unicode
GlyphInputs ==
    ({glyph_of("legacy", e) : e \in EntriesOf("legacy")}
        \cup {glyph_of("current", e) : e \in EntriesOf("current")}
        \cup {"x", "U+2205"}) \ {None}

\* tokens offered to from_ascii / from_simple
AsciiInputs ==
    ({ascii_of("legacy", e) : e \in EntriesOf("legacy")} \cup {"Underscore"}) \ {None}

InitCatalogue ==
    /\ TagIdle
    /\ GenIdle
    /\ DocIdle
    /\ dispatcher \in {"legacy", "current"}
    /\ stack = <<>>
    /\ antistack = <<>>
    /\ memo = {}
    /\ last = Idle
    /\ \/ phase = "ask_name" /\ dispatcher = "current" /\ name \in NameInputs
       \/ phase = "ask_ascii" /\ name \in AsciiInputs
       \/ phase = "ask_glyph" /\ name \in GlyphInputs
       \/ phase = "ask_inverse" /\ dispatcher = "legacy" /\ name \in Primitives("legacy")
       \/ phase = "ask_display" /\ name \in Primitives(dispatcher)
    /\ start = 0
    /\ end = 0
    /\ prims = <<>>
    /\ fres = None
    /\ result = NoResult
    /\ consumed = NoConsumed

\* a call of Primitive::from_name(name)
FromName ==
    /\ phase = "ask_name"
    /\ fres' = from_name(name)
    /\ phase' = "from_name"
    /\ UNCHANGED <<name, start, end, prims, result, consumed>>
    /\ UNCHANGED runVars
    /\ UNCHANGED <<tagVars, genVars, docVars>>

\* a call of Primitive::from_ascii(name) / Primitive::from_simple(name)
FromAscii ==
    /\ phase = "ask_ascii"
    /\ fres' = from_ascii(dispatcher, name)
    /\ phase' = "from_ascii"
    /\ UNCHANGED <<name, start, end, prims, result, consumed>>
    /\ UNCHANGED runVars
    /\ UNCHANGED <<tagVars, genVars, docVars>>

\* a call of Primitive::from_glyph(name) / Primitive::from_unicode(name)
FromGlyph ==
    /\ phase = "ask_glyph"
    /\ fres' = from_glyph(dispatcher, name)
    /\ phase' = "from_glyph"
    /\ UNCHANGED <<name, start, end, prims, result, consumed>>
    /\ UNCHANGED runVars
    /\ UNCHANGED <<tagVars, genVars, docVars>>

\* a call of inverse() on the primitive `name`, then on what that returned;
\* prims collects the results
Inverse ==
    /\ phase \in {"ask_inverse", "inverse"}
    /\ Len(prims) < 2
    /\ LET p == IF prims = <<>> THEN name ELSE prims[Len(prims)]
       IN  /\ p # None
           /\ prims' = Append(prims, inverse(p))
    /\ phase' = "inverse"
    /\ UNCHANGED <<name, start, end, fres, result, consumed>>
    /\ UNCHANGED runVars
    /\ UNCHANGED <<tagVars, genVars, docVars>>

\* a formatting of the primitive `name` with {}; result holds what was
\* written and which branch wrote it
DisplayPrimitive ==
    /\ phase = "ask_display"
    /\ result' = Some(Display(dispatcher, EntryOf(dispatcher, name)))
    /\ phase' = "display"
    /\ UNCHANGED <<name, start, end, prims, fres, consumed>>
    /\ UNCHANGED runVars
    /\ UNCHANGED <<tagVars, genVars, docVars>>

NextCatalogue == FromName \/ FromAscii \/ FromGlyph \/ Inverse \/ DisplayPrimitive

SpecCatalogue == InitCatalogue /\ [][NextCatalogue]_vars

(***************************************************************************)
(* PrimDoc::from_lines                                                     *)
(***************************************************************************)
\* str::trim, for lines whose only whitespace is the space
RECURSIVE trim_start(_)
trim_start(l) == IF l # <<>> /\ Head(l) = " " THEN trim_start(Tail(l)) ELSE l

RECURSIVE trim_end(_)
trim_end(l) ==
    IF l # <<>> /\ l[Len(l)] = " " THEN trim_end(SubSeq(l, 1, Len(l) - 1)) ELSE l

trim(l) == trim_end(trim_start(l))

\* str::strip_prefix: the rest of the line, as Some(rest) or NoResult
strip_prefix(l, p) ==
    IF starts_with(l, p) THEN Some(SubSeq(l, Len(p) + 1, Len(l))) ELSE NoResult

\* `if ex.starts_with(' ') { ex = &ex[1..] }`
skip_space(ex) == IF ex # <<>> /\ Head(ex) = " " THEN Tail(ex) ELSE ex

\* parse_doc_line_fragments, for lines without markup characters: the whole
\* line as one text fragment, and no fragment for an empty line
parse_doc_line_fragments(l) == IF l = <<>> THEN <<>> ELSE <<l>>

\* PrimDocLine::Text(frags) and PrimDocLine::Example(PrimExample { .. })
Text(frags) == [kind |-> "Text", frags |-> frags, input |-> <<>>, should_error |-> FALSE]
Example(input, should_error) ==
    [kind |-> "Example", frags |-> <<>>, input |-> input, should_error |-> should_error]

\* the state of the parser: `short` and `lines`
Doc(sh, ls) == [short |-> sh, lines |-> ls]

\* doc_line with a continuation appended to the example without the newline
doc_line_no_newline(d, raw) ==
    LET line == trim(raw)
        ex == strip_prefix(line, <<"e", "x", ":">>)
        exbang == strip_prefix(line, <<"e", "x", "!">>)
        more == strip_prefix(line, <<":">>)
        n == Len(d.lines)
    IN  IF ex.some THEN Doc(d.short, Append(d.lines, Example(skip_space(ex.list), FALSE)))
        ELSE IF exbang.some
        THEN Doc(d.short, Append(d.lines, Example(skip_space(exbang.list), TRUE)))
        ELSE IF more.some
        THEN IF n > 0 /\ d.lines[n].kind = "Example"
             THEN Doc(d.short, [d.lines EXCEPT ![n].input = @ \o skip_space(more.list)])
             ELSE Doc(d.short, Append(d.lines, Text(parse_doc_line_fragments(line))))
        ELSE IF d.short = <<>> THEN Doc(parse_doc_line_fragments(line), d.lines)
        ELSE Doc(d.short, Append(d.lines, Text(parse_doc_line_fragments(line))))

\* the body of `for line in s.lines()`
doc_line(d, raw) ==
    LET line == trim(raw)
        ex == strip_prefix(line, <<"e", "x", ":">>)
        exbang == strip_prefix(line, <<"e", "x", "!">>)
        more == strip_prefix(line, <<":">>)
        n == Len(d.lines)
    IN  IF ex.some THEN Doc(d.short, Append(d.lines, Example(skip_space(ex.list), FALSE)))
        ELSE IF exbang.some
        THEN Doc(d.short, Append(d.lines, Example(skip_space(exbang.list), TRUE)))
        ELSE IF more.some
        THEN IF n > 0 /\ d.lines[n].kind = "Example"
             THEN Doc(d.short,
                      [d.lines EXCEPT ![n].input = (@ \o <<"\n">>) \o skip_space(more.list)])
             ELSE Doc(d.short, Append(d.lines, Text(parse_doc_line_fragments(line))))
        ELSE IF d.short = <<>> THEN Doc(parse_doc_line_fragments(line), d.lines)
        ELSE Doc(d.short, Append(d.lines, Text(parse_doc_line_fragments(line))))

\* `while let Some(PrimDocLine::Text(frags)) = lines.first()`: the empty text
\* lines at the front are removed
RECURSIVE remove_first_empty(_)
remove_first_empty(ls) ==
    IF ls # <<>> /\ Head(ls).kind = "Text" /\ Head(ls).frags = <<>>
    THEN remove_first_empty(Tail(ls)) ELSE ls

\* `while let Some(PrimDocLine::Text(frags)) = lines.last()`: the empty text
\* lines at the back are popped
RECURSIVE pop_last_empty(_)
pop_last_empty(ls) ==
    IF ls # <<>> /\ ls[Len(ls)].kind = "Text" /\ ls[Len(ls)].frags = <<>>
    THEN pop_last_empty(SubSeq(ls, 1, Len(ls) - 1)) ELSE ls

\* the lines a documentation comment is made of
DocLines ==
    { <<>>, <<" ">>, <<"a">>, <<" ", "b", " ">>, <<"e", "x">>,
      <<"e", "x", ":", " ", "1">>, <<"e", "x", ":", "2">>, <<"e", "x", "!", " ", "3">>,
      <<":", " ", "4">>, <<":">> }

\* a call of PrimDoc::from_lines(s)
InitDoc ==
    /\ RunIdle
    /\ NameIdle
    /\ TagIdle
    /\ GenIdle
    /\ s_lines \in UNION {[1..n -> DocLines] : n \in 0..MaxLines}
    /\ line_no = 0
    /\ short = <<>>
    /\ lines = <<>>
    /\ returned = FALSE

\* one iteration of `for line in s.lines()`
ForLine ==
    /\ ~returned
    /\ line_no < Len(s_lines)
    /\ LET d == doc_line(Doc(short, lines), s_lines[line_no + 1])
       IN  /\ short' = d.short
           /\ lines' = d.lines
    /\ line_no' = line_no + 1
    /\ UNCHANGED <<s_lines, returned>>
    /\ UNCHANGED <<nameVars, runVars, tagVars, genVars>>

\* the two `while let` loops and the return of Self { short, lines }
Return ==
    /\ ~returned
    /\ line_no = Len(s_lines)
    /\ lines' = pop_last_empty(remove_first_empty(lines))
    /\ returned' = TRUE
    /\ UNCHANGED <<s_lines, line_no, short>>
    /\ UNCHANGED <<nameVars, runVars, tagVars, genVars>>

NextDoc == ForLine \/ Return

SpecDoc == InitDoc /\ [][NextDoc]_vars

(***************************************************************************)
(* Primitive::run of the legacy table: Under                               *)
(***************************************************************************)
\* the functions passed to Under as f, and as g
Transforms == {"flip", "save", "keep", "dup", "fail"}
Middles == {"keep", "drop", "dup", "fail"}

\* the functions that are the inverse of some function
Inverses == {"flip", "save", "load", "keep"}

\* f.invert(env): the function that undoes f, instruction by instruction from
\* the last to the first, each primitive replaced by its inverse(); None when
\* an instruction has no inverse
invert(f) ==
    LET code == Function("legacy", f).code
        inv == [k \in 1..Len(code) |->
                    IF code[k].op = "prim" THEN inverse(code[k].p) ELSE None]
        undo == [k \in 1..Len(code) |-> Prim(inv[Len(code) + 1 - k])]
    IN  IF \E k \in 1..Len(code) : inv[k] = None THEN None
        ELSE CHOOSE g \in Inverses : Function("legacy", g).code = undo

\* UnderLegacy with the inverse derived where it is needed, after f and g
UnderInvertLate(f, g, st) ==
    LET rec == [Idle EXCEPT !.op = "Under", !.f = f, !.h = g,
                            !.pre = Len(st.stack), !.preAnti = Len(st.anti)]
        inv_f == invert(f)
        r == call("legacy", g, call("legacy", f, st))
    IN  IF inv_f = None THEN Outcome(IF r.ok THEN Fail(r, Str(7)) ELSE r, rec)
        ELSE Outcome(call("legacy", inv_f, r), rec)

\* Primitive::Under of the legacy run: f and g have been popped
UnderLegacy(f, g, st) ==
    LET rec == [Idle EXCEPT !.op = "Under", !.f = f, !.h = g,
                            !.pre = Len(st.stack), !.preAnti = Len(st.anti)]
        inv_f == invert(f)
    IN  IF inv_f = None THEN Outcome(Fail(st, Str(7)), rec)
        ELSE Outcome(call("legacy", inv_f, call("legacy", g, call("legacy", f, st))), rec)

\* a fresh runtime under the legacy dispatcher, the one whose Under runs
InitUnder ==
    /\ Init
    /\ dispatcher = "legacy"

\* Primitive::run of Under, with its two function operands
RunUnder ==
    /\ Running
    /\ \E f \in Transforms, g \in Middles : Leaves(UnderLegacy(f, g, Env(stack, antistack)))
    /\ UNCHANGED <<dispatcher, memo>>
    /\ UNCHANGED <<nameVars, tagVars, genVars, docVars>>

NextUnder == PushValue \/ RunPrimitive \/ RunUnder

SpecUnder == InitUnder /\ [][NextUnder]_vars

(***************************************************************************)
(* C1: stack conservation                                                  *)
(***************************************************************************)
\* C1 as stated: for every primitive whose catalogue entry declares an argument
\* count a and an output count o (the legacy table gives 1 to an entry that
\* writes no output count), a successful run from a stack of at least a values
\* leaves the stack exactly o - a values larger.
C1_StackConservation ==
    ( /\ last.op \in Simple(dispatcher)
      /\ last.ok
      /\ args(dispatcher, last.op) # -1
      /\ outputs(dispatcher, last.op) # -1
      /\ last.pre >= args(dispatcher, last.op) )
    => Len(stack) = last.pre + outputs(dispatcher, last.op) - args(dispatcher, last.op)

(***************************************************************************)
(* C2: Try atomicity                                                       *)
(***************************************************************************)
\* C2 as stated: whenever the body of Try fails, whatever the body did before,
\* the stack and the anti-stack at the moment the handler is invoked have the
\* sizes they had when the body was called (the error value pushed for the
\* handler not counted).
C2_TryAtomicity ==
    (last.op = "Try" /\ last.caught)
    => /\ Len(last.hstack) - 1 = last.pre
       /\ Len(last.hanti) = last.preAnti

(***************************************************************************)
(* C3: what the handler of Try is invoked on                               *)
(***************************************************************************)
\* how often the handler was entered
HandlerCalls(l) == Cardinality({k \in 1..Len(l.calls) : l.calls[k] = l.h})

\* the top n values of a stack, bottom first
TopOf(q, n) == SubSeq(q, Len(q) - n + 1, Len(q))

\* the handler ran once on m with the body's n original arguments above it,
\* and an error of the handler is the error of Try
HandlerSeesArgs(before, l, n) ==
    /\ HandlerCalls(l) = 1
    /\ Len(l.hstack) >= n + 1
    /\ TopOf(l.hstack, n + 1) = <<l.m>> \o TopOf(before, n)
    /\ (l.h = "rethrow" => ~l.ok /\ l.e = Str(3))

\* C3 as stated: when the body of Try fails with message value m, the handler
\* is invoked exactly once on a stack that holds m and, above it, the body's
\* original arguments in their original order; an error raised by the handler
\* propagates out of Try.
C3_HandlerAsStated ==
    [][ ( /\ last'.op = "Try"
          /\ last'.caught
          /\ Len(stack) >= Function(dispatcher, last'.f).args )
        => HandlerSeesArgs(stack, last', Function(dispatcher, last'.f).args) ]_vars

\* What each dispatcher does: the current one invokes the handler as stated.
\* The legacy one re-pushes nothing: its handler is invoked exactly once with
\* m, as a string, on top of what the body and the truncation left of the stack
\* below the snapshot height.  Under both, an error raised by the handler
\* propagates.
C3_Handler ==
    [][ ( /\ last'.op = "Try"
          /\ last'.caught
          /\ Len(stack) >= Function(dispatcher, last'.f).args )
        => IF dispatcher = "current"
           THEN /\ HandlerSeesArgs(stack, last', Function(dispatcher, last'.f).args)
                /\ (last'.f = "fail" => last'.m = Str(0))
           ELSE /\ HandlerCalls(last') = 1
                /\ last'.hstack # <<>>
                /\ last'.hstack[Len(last'.hstack)] = last'.m
                /\ last'.m.t # "num"
                /\ Len(last'.hstack) - 1 <= Len(stack)
                /\ \A k \in 1..(Len(last'.hstack) - 1) : last'.hstack[k] = stack[k]
                /\ (last'.h = "rethrow" => ~last'.ok /\ last'.e = Str(3)) ]_vars

\* the current Try caught the failure of a two-argument body and invoked the
\* handler on the message with both arguments above it
C3_Witness ==
    /\ dispatcher = "current"
    /\ last.op = "Try"
    /\ last.caught
    /\ last.f = "check"
    /\ last.calls = <<"check", last.h>>
    /\ Len(last.hstack) = 3
    /\ last.hstack[1] = last.m
    /\ last.hstack[2] # last.hstack[3]

(***************************************************************************)
(* C4: Memo purity                                                         *)
(***************************************************************************)
\* C4: once a Memo f invocation with arguments A has succeeded, its entry
\* stays; every later Memo f invocation with arguments equal to A enters no
\* function and replaces the arguments by the outputs the first invocation
\* left on the stack, same values in the same order; an invocation whose
\* (function id, arguments) pair has no entry calls f, whatever entries other
\* functions have for the same arguments.
C4_MemoPurity ==
    [][ /\ memo \subseteq memo'
        /\ last'.op = "Memo" /\ Len(stack) >= Function(dispatcher, last'.f).args
           => LET f == last'.f
                  sig == Function(dispatcher, f)
                  key == Reverse(TopOf(stack, sig.args))
                  found == {en \in memo : en.id = f /\ en.args = key}
                  below == SubSeq(stack, 1, Len(stack) - sig.args)
              IN  /\ last'.key = key
                  /\ Cardinality(found) <= 1
                  /\ \A en \in found :
                        /\ last'.ok
                        /\ last'.calls = <<>>
                        /\ stack' = below \o en.outputs
                        /\ memo' = memo
                  /\ found = {} => last'.calls = <<f>>
                  /\ (found = {} /\ last'.ok)
                        => memo' = memo \cup {[id |-> f, args |-> key,
                                               outputs |-> TopOf(stack', sig.outputs)]} ]_vars

\* a Memo pair invocation was served from its entry, entering no function,
\* while const has an entry of its own for the same argument
C4_Witness ==
    /\ last.op = "Memo"
    /\ last.f = "pair"
    /\ last.ok
    /\ last.calls = <<>>
    /\ last.key = <<Num(1)>>
    /\ TopOf(stack, 2) = <<Num(1), Num(0)>>
    /\ \E en \in memo : en.id = "const" /\ en.args = last.key
    /\ \E en \in memo : en.id = "pair" /\ en.args = last.key /\ en.outputs = <<Num(1), Num(0)>>

(***************************************************************************)
(* Vocabulary of the resolver properties                                    *)
(***************************************************************************)
Entries == {non_deprecated[k] : k \in 1..Len(non_deprecated)}

\* the non-deprecated primitives whose name starts with s
Starting(s) == {e \in Entries : starts_with(e.text, s)}

\* the planet-notation rule as the specification words it:
\* an optional leading f, then letters of {g, d}, then an optional i or p
PlanetShape(s) ==
    LET a == IF s # <<>> /\ Head(s) = "f" THEN Tail(s) ELSE s
        b == IF a # <<>> /\ a[Len(a)] \in {"i", "p"} THEN SubSeq(a, 1, Len(a) - 1) ELSE a
    IN  \A k \in 1..Len(b) : b[k] \in {"g", "d"}

\* the letter-by-letter reading of a planet word
PlanetReading(s) == [k \in 1..Len(s) |-> PlanetPrim(s[k])]

\* the primitives of a result, in order
PrimsOf(l) == [k \in 1..Len(l) |-> l[k].prim]

\* the concatenation of the slices of a result
RECURSIVE TextOf(_)
TextOf(l) == IF l = <<>> THEN <<>> ELSE Head(l).text \o TextOf(Tail(l))

\* the minimal resolving prefix of a name:
\* (2..=name.len()).find(|&n| from_format_name(&name[..n]) == Some(p))
MinPrefix(e) ==
    LET ns == {n \in 2..Len(e.text) : from_format_name(SubSeq(e.text, 1, n)) = e.prim}
    IN  SubSeq(e.text, 1, Min(ns))

MinPrefixOf == [e \in Entries |-> MinPrefix(e)]

\* no candidate starting at character k (0-based) and longer than n characters
\* resolves as a name or is a planet word
NothingLonger(s, k, n) ==
    \A m \in (n + 1)..(Len(s) - k) :
        LET sub == SubSeq(s, k + 1, k + m)
        IN  from_format_name(sub) = None /\ ~PlanetShape(sub)

C6_MultiAsStated ==
    phase = "done" =>
        /\ \A e1 \in Entries :
              name = MinPrefixOf[e1] => result.some /\ PrimsOf(result.list) = <<e1.prim>>
        /\ \A e1 \in Entries : \A e2 \in Entries :
              name = MinPrefixOf[e1] \o MinPrefixOf[e2]
                  => result.some /\ PrimsOf(result.list) = <<e1.prim, e2.prim>>
        /\ (name = <<"f","o","o">> => ~result.some)

\* C6 amended: the list is returned when, at each element's start, no candidate
\* longer than the element's minimal prefix resolves as a name or is a planet
\* word; and "foo" returns absent.
C6_MultiRoundTrip ==
    phase = "done" =>
        /\ \A e1 \in Entries :
              (name = MinPrefixOf[e1] /\ NothingLonger(name, 0, Len(name)))
                  => result.some /\ PrimsOf(result.list) = <<e1.prim>>
        /\ \A e1 \in Entries : \A e2 \in Entries :
              ( /\ name = MinPrefixOf[e1] \o MinPrefixOf[e2]
                /\ NothingLonger(name, 0, Len(MinPrefixOf[e1]))
                /\ NothingLonger(name, Len(MinPrefixOf[e1]), Len(MinPrefixOf[e2])) )
                  => result.some /\ PrimsOf(result.list) = <<e1.prim, e2.prim>>
        /\ (name = <<"f","o","o">> => ~result.some)

\* two copies of the prefix of Reverse have been resolved to [Reverse, Reverse]
C6_Witness ==
    /\ phase = "done"
    /\ name = <<"r","e","v","r","e","v">>
    /\ result.some
    /\ PrimsOf(result.list) = <<"Reverse", "Reverse">>

(***************************************************************************)
(* C7: the forward scan is greedy-longest                                  *)
(***************************************************************************)
\* C7: the candidate a forward iteration consumes resolves by name or is a
\* planet word, has at least 2 characters, and no longer candidate at the same
\* cursor, up to the whole remainder, resolves by name or is a planet word.
C7_GreedyLongest ==
    consumed.scan = "forward" =>
        /\ Len(consumed.sub) >= 2
        /\ from_format_name(consumed.sub) # None \/ PlanetShape(consumed.sub)
        /\ consumed.sub = SubSeq(name, consumed.at + 1, consumed.at + Len(consumed.sub))
        /\ \A m \in (Len(consumed.sub) + 1)..(Len(name) - consumed.at) :
              LET longer == SubSeq(name, consumed.at + 1, consumed.at + m)
              IN  from_format_name(longer) = None /\ ~PlanetShape(longer)

\* a forward iteration consumed a candidate although a shorter one resolves too
C7_Witness ==
    /\ consumed.scan = "forward"
    /\ consumed.at = 0
    /\ consumed.sub = <<"t","r","y","r","e","c","v">>
    /\ from_format_name(<<"t","r","y">>) = "Try"

(***************************************************************************)
(* C8: planet notation                                                     *)
(***************************************************************************)
\* C8 as stated: a name of at least two letters that is a planet word (optional
\* f, letters of {g, d}, optional i or p) and does not resolve as an ordinary
\* name is decomposed letter by letter into Fork, Gap, Dip, Identity, Pop.
C8_PlanetNotation ==
    ( /\ phase = "done"
      /\ Len(name) >= 2
      /\ PlanetShape(name)
      /\ from_format_name(name) = None )
    => /\ result.some
       /\ PrimsOf(result.list) = PlanetReading(name)

(***************************************************************************)
(* C9: the backward scan                                                   *)
(***************************************************************************)
\* the longest candidate ending at cursor `en` that the forward scan's test
\* (an ordinary name or a planet word) accepts; 0 if there is none
SameLogicBackwardLen(s, en) ==
    LET ok == {l \in 2..en : ForwardAccepts(BackwardSub(s, en, l))}
    IN  IF ok = {} THEN 0 ELSE Max(ok)

\* a greedy backward scan with the forward scan's test: does it reach the left
\* end from cursor `en`?
RECURSIVE SameLogicBackwardParses(_, _)
SameLogicBackwardParses(s, en) ==
    IF en = 0 THEN TRUE
    ELSE LET ln == SameLogicBackwardLen(s, en)
         IN  ln # 0 /\ SameLogicBackwardParses(s, en - ln)

\* C9 as stated: when the forward scan stalls, a backward scan from the right
\* end is tried with the resolution logic of the forward scan (ordinary names
\* and planet notation); its result is returned in left-to-right order, and
\* absent is returned only if both scans fail.
C9_BackwardScan ==
    /\ (phase = "done" /\ ~result.some /\ Len(name) >= 2)
          => ~SameLogicBackwardParses(name, Len(name))
    /\ (phase = "done" /\ result.some /\ consumed.scan = "backward")
          => /\ TextOf(result.list) = name
             /\ \A k \in 1..(Len(result.list) - 1) :
                   result.list[k].at + len(result.list[k].text) = result.list[k + 1].at

(***************************************************************************)
(* C10: the prefix rule of from_format_name                                *)
(***************************************************************************)
\* C10: for a string that is neither a fixed alias nor the exact name of a
\* non-deprecated primitive, the result is absent when it has fewer than 3
\* characters, absent when two or more non-deprecated primitives with a
\* non-ASCII glyph have names starting with it, and otherwise the unique such
\* primitive (absent if there is none).
C10_PrefixRule ==
    ( /\ phase = "single"
      /\ Alias(name) = None
      /\ \A e \in Entries : e.text # name )
    => LET M == {e \in Starting(name) : glyph_not_ascii(e)}
       IN  IF Len(name) < 3 THEN fres = None
           ELSE IF Cardinality(M) >= 2 THEN fres = None
           ELSE IF M = {} THEN fres = None
           ELSE \A e \in M : fres = e.prim

\* the prefix rule returned the unique primitive of a four-letter prefix
C10_Witness ==
    /\ phase = "single"
    /\ name = <<"r","a","n","d">>
    /\ fres = "Rand"

(***************************************************************************)
(* C11: the fixed aliases take precedence                                  *)
(***************************************************************************)
\* C11: from_format_name resolves "id", "ga", "pi", "ran", "tra" and "par" to
\* Identity, Gap, Pi, Range, Transpose and Partition, although "id" and "ga"
\* have fewer than 3 characters and "ran", "tra", "par" start several names.
C11_AliasPrecedence ==
    phase = "single" =>
        /\ (name = <<"i","d">> => fres = "Identity")
        /\ (name = <<"g","a">> => fres = "Gap")
        /\ (name = <<"p","i">> => fres = "Pi")
        /\ (name = <<"r","a","n">> => fres = "Range")
        /\ (name = <<"t","r","a">> => fres = "Transpose")
        /\ (name = <<"p","a","r">> => fres = "Partition")

\* "ran", which starts the names of two primitives with a non-ASCII glyph, has
\* been resolved to Range
C11_Witness ==
    /\ phase = "single"
    /\ name = <<"r","a","n">>
    /\ Cardinality({e \in Entries : glyph_not_ascii(e) /\ starts_with(e.text, name)}) >= 2
    /\ fres = "Range"

LookupTotal == fres \in Primitives(dispatcher) \cup {None}

\* C13 as stated: each lookup returns a primitive or absent, every primitive
\* is returned by each of the three lookups for some input (by from_name for
\* its name), and an input that names no primitive gives absent.
C13_LookupsAsStated ==
    /\ phase = "from_name" =>
          /\ LookupTotal
          /\ \A e \in EntriesOf(dispatcher) : from_name(name_of(dispatcher, e)) = e.prim
          /\ ((\A e \in EntriesOf(dispatcher) : name_of(dispatcher, e) # name) => fres = None)
    /\ phase = "from_ascii" =>
          /\ LookupTotal
          /\ \A e \in EntriesOf(dispatcher) :
                \E s \in AsciiInputs : from_ascii(dispatcher, s) = e.prim
          /\ ((\A e \in EntriesOf(dispatcher) : ascii_of(dispatcher, e) # name) => fres = None)
    /\ phase = "from_glyph" =>
          /\ LookupTotal
          /\ \A e \in EntriesOf(dispatcher) :
                \E c \in GlyphInputs : from_glyph(dispatcher, c) = e.prim
          /\ ((\A e \in EntriesOf(dispatcher) : glyph_of(dispatcher, e) # name) => fres = None)

\* C13 amended: each lookup returns a primitive or absent; from_name returns
\* every primitive for its name, from_ascii every primitive that has an ASCII
\* token for that token, from_glyph every primitive that has a glyph for that
\* glyph; an input that names no primitive gives absent.
C13_Lookups ==
    /\ phase = "from_name" =>
          /\ LookupTotal
          /\ \A e \in EntriesOf(dispatcher) : name = name_of(dispatcher, e) => fres = e.prim
          /\ ((\A e \in EntriesOf(dispatcher) : name_of(dispatcher, e) # name) => fres = None)
    /\ phase = "from_ascii" =>
          /\ LookupTotal
          /\ \A e \in EntriesOf(dispatcher) : name = ascii_of(dispatcher, e) => fres = e.prim
          /\ ((\A e \in EntriesOf(dispatcher) : ascii_of(dispatcher, e) # name) => fres = None)
    /\ phase = "from_glyph" =>
          /\ LookupTotal
          /\ \A e \in EntriesOf(dispatcher) : name = glyph_of(dispatcher, e) => fres = e.prim
          /\ ((\A e \in EntriesOf(dispatcher) : glyph_of(dispatcher, e) # name) => fres = None)

\* the glyph of a primitive that has one has been looked up and found it, in a
\* catalogue where another primitive has no glyph
C13_Witness ==
    /\ phase = "from_glyph"
    /\ dispatcher = "legacy"
    /\ name = "U+21CC"
    /\ fres = "Reverse"
    /\ \E e \in EntriesOf(dispatcher) : glyph_of(dispatcher, e) = None

(***************************************************************************)
(* C14: inversion is an involution                                         *)
(***************************************************************************)
\* C14: for every primitive p whose inverse is defined, the inverse of that
\* inverse is defined and is p.
C14_InverseInvolution ==
    (phase = "inverse" /\ Len(prims) = 2) => prims[2] = name

(***************************************************************************)
(* C15: the modifiers the runtime refuses                                  *)
(***************************************************************************)
\* C15: running Dip, Gap, Un, Under, Bind, Both, Fork, Cascade, Bracket or
\* Comptime fails with the error "<name> was not inlined" that names the
\* primitive run, and leaves the stack and the anti-stack as they were.
C15_NotInlined ==
    [][ last'.op \in {"Dip", "Gap", "Un", "Under", "Bind", "Both", "Fork",
                      "Cascade", "Bracket", "Comptime"}
        => /\ ~last'.ok
           /\ last'.e.t = "internal"
           /\ NotInlinedWords[last'.e.v] = last'.op
           /\ stack' = stack
           /\ antistack' = antistack ]_vars

(***************************************************************************)
(* C16: Assert                                                             *)
(***************************************************************************)
\* C16: Assert pops the message (top) and the condition (second); it succeeds,
\* pushing nothing, exactly when the condition is the natural 1, and for every
\* other condition it fails with the popped message as the error thrown.
C16_ThrowUnlessOne ==
    [][ (last'.op = "Assert" /\ Len(stack) >= 2)
        => LET msg  == stack[Len(stack)]
               cond == stack[Len(stack) - 1]
           IN  /\ stack' = SubSeq(stack, 1, Len(stack) - 2)
               /\ antistack' = antistack
               /\ last'.ok <=> cond = Num(1)
               /\ ~last'.ok => last'.e = msg ]_vars

\* Assert has popped a message that is no natural and a condition from above
\* a third value, and has failed with that message as the error thrown
C16_Witness ==
    /\ last.op = "Assert"
    /\ ~last.ok
    /\ last.pre = 3
    /\ Len(stack) = 1
    /\ last.e = Frac

(***************************************************************************)
(* C17: the stack-shuffling primitives                                     *)
(***************************************************************************)
\* C17: on a stack ending in [.., b, a], Dup leaves [.., b, a, a], Over
\* [.., b, a, b], Flip [.., a, b] and Pop [.., b]; the values below and the
\* anti-stack are unchanged, and Flip applied once more restores the stack.
C17_Shuffles ==
    [][ LET n    == Len(stack)
            a    == stack[n]
            b    == stack[n - 1]
            rest == SubSeq(stack, 1, n - 2)
        IN  /\ (last'.op = "Dup" /\ n >= 1)
                  => /\ last'.ok
                     /\ stack' = SubSeq(stack, 1, n - 1) \o <<a, a>>
                     /\ antistack' = antistack
            /\ (last'.op = "Pop" /\ n >= 1)
                  => /\ last'.ok
                     /\ stack' = SubSeq(stack, 1, n - 1)
                     /\ antistack' = antistack
            /\ (last'.op = "Over" /\ n >= 2)
                  => /\ last'.ok
                     /\ stack' = rest \o <<b, a, b>>
                     /\ antistack' = antistack
            /\ (last'.op = "Flip" /\ n >= 2)
                  => /\ last'.ok
                     /\ stack' = rest \o <<a, b>>
                     /\ antistack' = antistack
                     /\ run(dispatcher, "Flip", Env(stack', antistack')).stack = stack ]_vars

\* Over has copied the second value over a different top value, above a value
\* it left alone
C17_Witness ==
    /\ last.op = "Over"
    /\ last.ok
    /\ dispatcher = "current"
    /\ Len(stack) = 3
    /\ stack[1] = stack[3]
    /\ stack[1] # stack[2]

C19_Diagnostics ==
    [][ last'.op \in {"Trace", "Stack", "Dump", "InvTrace", "InvStack", "InvDump"}
        => stack' = stack ]_vars

(***************************************************************************)
(* C20: Tag                                                                *)
(***************************************************************************)
\* the invocations of Tag that have pushed: thread and position
Tagged == {x \in Threads \X (1..MaxTag) : x[2] <= Len(tstack[x[1]])}

\* C20: under any interleaving of the threads, no two invocations of Tag push
\* the same natural, and the naturals one thread pushes are strictly increasing.
C20_TagMonotonic ==
    /\ \A x \in Tagged : \A y \in Tagged :
          x # y => tstack[x[1]][x[2]] # tstack[y[1]][y[2]]
    /\ \A t \in Threads : \A i \in 1..Len(tstack[t]) : \A j \in 1..Len(tstack[t]) :
          i < j => tstack[t][i] < tstack[t][j]

\* two threads have run Tag in turn: one pushed 0 and 2, the other, between
\* them, 1, while a third has fetched its tag and not pushed it yet
C20_Witness ==
    /\ tstack[1] = <<0, 2>>
    /\ tstack[2] = <<1>>
    /\ tag[3] = 3

(***************************************************************************)
(* C21: Gen is a function of its seed alone                                *)
(***************************************************************************)
\* C21: any two invocations of Gen that find the same number on top of the
\* stack succeed and push the same pair (the value, then the next seed on
\* top), whatever lies below the seed and whatever state the thread-local
\* generator is in; Gen pops the seed only and leaves what lies below it
\* unchanged.
C21_GenDeterministic ==
    \A x, y \in gens :
            (is_num(x.seed) /\ y.seed = x.seed)
            => /\ x.ok
               /\ y.ok
               /\ x.kept
               /\ Len(x.pushed) = 2
               /\ x.pushed = y.pushed
               /\ x.pushed[1].t = "unit"

\* Gen has run twice on the same seed, over a different number of values and
\* with the thread-local generator in different states
C21_Witness ==
    \E x, y \in gens :
        /\ is_num(x.seed)
        /\ y.seed = x.seed
        /\ x.below # y.below
        /\ x.RNG # y.RNG

(***************************************************************************)
(* C22: the order in which Under runs f, g and the inverse of f            *)
(***************************************************************************)
\* C22: Under(f, g) enters f, then g, then the inverse of f, each once, and
\* in this order (an operand that fails ends the sequence there); the inverse
\* is derived before f is called, so when f has no inverse Under fails and
\* has entered neither f nor g.
C22_UnderOrder ==
    last.op = "Under"
    => IF invert(last.f) = None
       THEN ~last.ok /\ last.calls = <<>>
       ELSE LET order == <<last.f, last.h, invert(last.f)>>
            IN  /\ Len(last.calls) \in 1..3
                /\ last.calls = SubSeq(order, 1, Len(last.calls))
                /\ (last.ok => last.calls = order)

\* Under has run f, g and an inverse that is another function than f
C22_Witness ==
    /\ last.op = "Under"
    /\ last.ok
    /\ last.f = "save"
    /\ last.h = "dup"
    /\ last.calls = <<"save", "dup", "load">>

(***************************************************************************)
(* C23: how a primitive is displayed                                       *)
(***************************************************************************)
\* C23 as stated: Display(p) is p's glyph if it has one, otherwise its ASCII
\* token if it has one, otherwise its name; no primitive renders as anything
\* else.
C23_DisplayAsStated ==
    phase = "display"
    => LET e == EntryOf(dispatcher, name)
       IN  result.list =
               IF glyph_of(dispatcher, e) # None THEN <<"glyph", glyph_of(dispatcher, e)>>
               ELSE IF ascii_of(dispatcher, e) # None THEN <<"ascii", ascii_of(dispatcher, e)>>
               ELSE <<"name", name_of(dispatcher, e)>>

\* C23 amended: Display(p) is p's glyph if it has one, otherwise its ASCII
\* token if it has one, otherwise its name if it has one, and otherwise (the
\* primitives of the legacy table that have none of the three) the identifier
\* of the variant; no primitive renders as anything else.
C23_Display ==
    phase = "display"
    => LET e == EntryOf(dispatcher, name)
       IN  result.list =
               IF glyph_of(dispatcher, e) # None THEN <<"glyph", glyph_of(dispatcher, e)>>
               ELSE IF ascii_of(dispatcher, e) # None THEN <<"ascii", ascii_of(dispatcher, e)>>
               ELSE IF name_of(dispatcher, e) # None THEN <<"name", name_of(dispatcher, e)>>
               ELSE <<"debug", name>>

\* a primitive that has an ASCII token and a glyph has been displayed as its
\* glyph
C23_Witness ==
    /\ phase = "display"
    /\ dispatcher = "legacy"
    /\ name = "Neg"
    /\ ascii_of(dispatcher, EntryOf(dispatcher, name)) # None
    /\ result.list = <<"glyph", "U+00AF">>

(***************************************************************************)
(* C24: how from_lines reads a documentation comment                       *)
(***************************************************************************)
\* the line the next iteration takes, trimmed
NextLine == trim(s_lines[line_no + 1])

\* the kinds of line: an example, a continuation, a text line
IsExample(l) == starts_with(l, <<"e", "x", ":">>) \/ starts_with(l, <<"e", "x", "!">>)
IsMore(l) == ~IsExample(l) /\ starts_with(l, <<":">>)
IsText(l) == ~IsExample(l) /\ ~IsMore(l)

\* what follows the marker of an example or a continuation, one space skipped
After(l, n) == skip_space(SubSeq(l, n + 1, Len(l)))

\* the position in ls of the example entered last, 0 if there is none
PreviousExample(ls) ==
    LET ks == {k \in 1..Len(ls) : ls[k].kind = "Example"}
    IN  IF ks = {} THEN 0 ELSE Max(ks)

\* no line taken so far was a non-empty text line
NoTextYet == \A k \in 1..line_no : ~IsText(trim(s_lines[k])) \/ trim(s_lines[k]) = <<>>

\* what an iteration does with an example line and with a text line
ExampleAndTextLines ==
    /\ IsExample(NextLine)
          => /\ lines' = Append(lines, Example(After(NextLine, 3), NextLine[3] = "!"))
             /\ short' = short
    /\ (IsText(NextLine) /\ NextLine # <<>> /\ NoTextYet)
          => /\ short' = <<NextLine>>
             /\ lines' = lines

\* C24 as stated: the lines are taken in order; the first non-empty text line
\* becomes short and is not added to lines; every ex: / ex! line starts a new
\* example (should_error set only for ex!); a ': more' line is appended, after
\* a newline, to the source of the previous example.
C24_DocAsStated ==
    [][ line_no' = line_no + 1
        => /\ ExampleAndTextLines
           /\ (IsMore(NextLine) /\ PreviousExample(lines) > 0)
                 => LET k == PreviousExample(lines)
                    IN  /\ lines' = [lines EXCEPT
                                       ![k].input = (@ \o <<"\n">>) \o After(NextLine, 1)]
                        /\ short' = short ]_vars

\* C24 amended: the lines are taken in order; the first non-empty line that is
\* neither an example nor a ':' line becomes short and is not added to lines;
\* every ex: / ex! line starts a new example (should_error set only for ex!);
\* a ': more' line is appended, after a newline, to the source of the example
\* that is the last entry of lines, and when the last entry is no example (or
\* there is none) the line is added to lines as a text line, colon included.
C24_Doc ==
    [][ line_no' = line_no + 1
        => /\ ExampleAndTextLines
           /\ IsMore(NextLine)
                 => /\ short' = short
                    /\ IF lines # <<>> /\ lines[Len(lines)].kind = "Example"
                       THEN lines' = [lines EXCEPT
                                        ![Len(lines)].input = (@ \o <<"\n">>) \o After(NextLine, 1)]
                       ELSE lines' = Append(lines, Text(<<NextLine>>)) ]_vars

\* a short line, an example and its continuation have been read
C24_Witness ==
    /\ line_no = 3
    /\ short = <<<<"a">>>>
    /\ lines = <<Example(<<"1", "\n", "4">>, FALSE)>>

(***************************************************************************)
(* C25: the slices of a from_format_name_multi result                      *)
(***************************************************************************)
\* element k of l is one character of a run of single characters that is a
\* planet word, read as the planet notation reads it
InPlanetGroup(l, k) ==
    /\ Len(l[k].text) = 1
    /\ l[k].prim = PlanetPrim(l[k].text[1])
    /\ \E i \in 1..k : \E j \in k..Len(l) :
          /\ \A m \in i..j : Len(l[m].text) = 1
          /\ IsPlanet(TextOf(SubSeq(l, i, j)))

\* C25: whenever from_format_name_multi returns a list, from the forward or
\* from the backward scan, its slices are contiguous, do not overlap, stand in
\* left-to-right order and concatenate to the input; every element is either
\* a slice of at least 2 characters that from_format_name maps to the
\* element's primitive, or a single character of a planet-notation group.
C25_Slices ==
    (phase = "done" /\ result.some)
    => LET l == result.list
       IN  /\ TextOf(l) = name
           /\ \A k \in 1..Len(l) : l[k].at = len(TextOf(SubSeq(l, 1, k - 1)))
           /\ \A k \in 1..Len(l) :
                 \/ Len(l[k].text) >= 2 /\ from_format_name(l[k].text) = l[k].prim
                 \/ InPlanetGroup(l, k)

\* a list of a name and a planet group has been returned
C25_Witness ==
    /\ phase = "done"
    /\ result.some
    /\ \E k \in 1..Len(result.list) : Len(result.list[k].text) >= 2
    /\ \E k \in 1..Len(result.list) : InPlanetGroup(result.list, k)

(***************************************************************************)
(* C26: from_format_name_multi terminates and does not panic               *)
(***************************************************************************)
\* an iteration of either scan that stays in its loop moves its cursor by at
\* least 2 positions, within the char-index table
Advances ==
    /\ (phase = "forward" /\ phase' = "forward")
          => start' >= start + 2 /\ start' <= Len(Indices(name))
    /\ (phase = "backward" /\ phase' = "backward")
          => end' <= end - 2 /\ end' >= 0

\* C26: from_format_name_multi returns for every input and never panics: an
\* iteration of a loop either ends the loop (by returning, or by giving the
\* scan up) or advances the cursor by at least 2 positions; no access to the
\* char-index table is out of bounds, the candidate of length one past the
\* remainder included; the unreachable!() arm of the planet decomposition is
\* never reached.
C26_Terminates ==
    /\ [](phase # "panic")
    /\ [][Advances]_vars
    /\ <>(phase \in {"single", "done"})

\* the forward scan has returned after taking the candidate of length one past
\* the remainder, a planet word
C26_Witness ==
    /\ phase = "done"
    /\ result.some
    /\ consumed.scan = "forward"
    /\ consumed.planet
    /\ consumed.at + consumed.len = Len(Indices(name))
    /\ Len(consumed.sub) = consumed.len - 1

(***************************************************************************)
(* C27: the legacy resolver on names with multi-byte characters            *)
(***************************************************************************)
\* C27: the legacy resolver from_multiname returns Some or None for every
\* input, names of 3 or more bytes with a multi-byte character included: it
\* never indexes the per-character table out of bounds and never slices
\* inside a character.
C27_MultinameReturns ==
    dispatcher = "legacy" => phase \in {"start", "multiname", "done"}

(***************************************************************************)
(* C28: the memo table records completed calls only                        *)
(***************************************************************************)
\* C28: on a miss Memo pushes the popped arguments back in their original
\* order, so that f is entered on the stack that was there before Memo (the
\* function operand apart); if the invocation fails, the memo table is left as
\* it was; an entry that is added is the entry of this call, made of its
\* arguments and of the outputs of the completed call; the entries for other
\* keys are neither removed nor altered.
C28_MemoCompletedCalls ==
    [][ last'.op = "Memo"
          => LET f == last'.f
                 sig == Function(dispatcher, f)
                 key == last'.key
                 miss == Len(stack) >= sig.args /\ MemoGet(memo, f, key) = {}
             IN  /\ miss => /\ last'.calls = <<f>>
                            /\ last'.hstack = stack
                            /\ last'.hanti = antistack
                 /\ ~last'.ok => memo' = memo
                 /\ \A en \in memo' \ memo :
                        /\ miss /\ last'.ok
                        /\ en = [id |-> f, args |-> key,
                                 outputs |-> clone_stack_top(stack', sig.outputs)]
                 /\ \A en \in memo : (en.id # f \/ en.args # key) => en \in memo'
      ]_vars

\* Memo check has missed, entered check on its two arguments pushed back and
\* failed; the table holds what it held, the entry of a completed call of
\* check with two different arguments among it, and no entry for this call
C28_Witness ==
    /\ last.op = "Memo"
    /\ last.f = "check"
    /\ ~last.ok
    /\ last.calls = <<"check">>
    /\ Len(last.key) = 2
    /\ Len(last.hstack) = last.pre
    /\ \E en \in memo : en.id = "check" /\ en.args[1] # en.args[2]
    /\ \E en \in memo : en.id # "check"
    /\ \A en \in memo : ~(en.id = "check" /\ en.args = last.key)

(***************************************************************************)
(* C29: Try whose body succeeds                                            *)
(***************************************************************************)
\* the body of the Try that the step runs succeeds on the stacks it is given
BodySucceeds == call(dispatcher, last'.f, Env(stack, antistack)).ok

\* C29: when the body of Try succeeds, the handler is not invoked, no error
\* value is pushed, and the stack and the anti-stack are left as the body left
\* them; whether the body succeeds or fails, the body begins on the stacks
\* without the two function operands of Try, which have been popped.
C29_TrySuccess ==
    [][ last'.op = "Try"
          => LET body == call(dispatcher, last'.f, Env(stack, antistack))
             IN  /\ last'.pre = Len(stack) /\ last'.preAnti = Len(antistack)
                 /\ Head(last'.calls) = last'.f
                 /\ BodySucceeds
                      => /\ last'.ok
                         /\ ~last'.caught
                         /\ last'.calls = <<last'.f>>
                         /\ last'.m = NoVal
                         /\ last'.hstack = <<>>
                         /\ stack' = body.stack
                         /\ antistack' = body.anti
      ]_vars

\* a Try whose body took a value and left two has succeeded under the current
\* dispatcher: the stack is one value higher than when the body began, and
\* only the body was entered
C29_Witness ==
    /\ dispatcher = "current"
    /\ last.op = "Try"
    /\ last.f = "dup"
    /\ last.h = "drop"
    /\ last.ok
    /\ ~last.caught
    /\ last.calls = <<"dup">>
    /\ Len(stack) = last.pre + 1
    /\ stack[Len(stack)] = stack[Len(stack) - 1]

(***************************************************************************)
(* C30: name resolution returns no deprecated primitive                    *)
(***************************************************************************)
\* the deprecated primitives: those with a deprecation suggestion
Deprecated == {all[k].prim : k \in {j \in 1..Len(all) : is_deprecated(all[j])}}

\* C30: from_format_name returns no deprecated primitive (Unpack, Cross,
\* Cascade, Rectify), whatever the input, and no element of a result of
\* from_format_name_multi that came from name resolution (an element whose slice
\* is a name of two or more characters) is deprecated.
C30_NeverDeprecated ==
    /\ phase = "single" => fres \notin Deprecated
    /\ (phase = "done" /\ result.some)
          => \A k \in 1..Len(result.list) :
                Len(result.list[k].text) >= 2 => result.list[k].prim \notin Deprecated

\* from_format_name was given the full name of a deprecated primitive and
\* returned None
C30_Witness ==
    /\ phase = "single"
    /\ \E k \in 1..Len(all) : is_deprecated(all[k]) /\ all[k].text = name
    /\ fres = None
    /\ Deprecated = {"Unpack", "Cross", "Cascade", "Rectify"}

====
